---- MODULE Spec2Model ----
(***************************************************************************)
(* State-machine model of the re-claude hook system:                       *)
(*   - the enhanced MCP tool mapping (mcp_tool_mappings_enhanced.py, whose  *)
(*     compiled form is embedded in MIGRATION_GUIDE.md),                    *)
(*   - the optimized hooks (src/hooks/optimized/*.js) and their manager.    *)
(* Strings whose characters matter (prompts, commands, descriptions) are    *)
(* sequences of one-character strings; identifiers that are only compared   *)
(* for equality are TLA+ strings.                                           *)
(***************************************************************************)
EXTENDS Integers, Sequences, FiniteSets, TLC

VARIABLES
    ORIGINAL,       \* the tables imported from mcp_tool_mappings
    ENHANCED_PATTERN_TOOLS,     \* module globals built at import
    ENHANCED_COMPLEXITY_TOOLS,
    ENHANCED_AGENT_TOOLS,
    patterns,       \* get_enhanced_required_tools: argument patterns
    complexity,     \* get_enhanced_required_tools: argument complexity
    agent_roles,    \* get_enhanced_required_tools: argument agent_roles
    required,       \* get_enhanced_required_tools: returned list
    rpc,            \* "idle" before the call, "returned" after it
    prompt,         \* the prompt under analysis
    matchPrompt,    \* PatternCatalog.match: promptText
    matchResult,    \* PatternCatalog.match: the result holding its ordered list
    rawBatch,       \* the raw store entries a rebuild folds
    merged,         \* the ConversationContext built from them
    clock,          \* wall clock, in seconds
    ticks,          \* how often the clock has advanced
    store,          \* the external store: its entries
    storeQueries,   \* how many queries the store has answered
    cacheEntries,   \* ContextCache: session id -> context and build time
    getCall,        \* the last ContextCache.get call
    getResult,      \* what that call returned
    envSession,     \* process.env.CLAUDE_FLOW_SESSION
    issued,         \* the claude-flow and git commands the last call issued
    cOptions,       \* PreCommandHook.execute: its options
    cResult,        \* PreCommandHook.execute: what it returned
    cpc,            \* "idle" before the call, "returned" after it
    hooks,          \* HookManager.hooks: hook name -> hook class
    mSessionId,     \* HookManager.sessionId
    mCall,          \* the last executeHook call
    mOutcome,       \* how the promise of that call settled
    pConfigs,       \* executeParallelHooks: hookConfigs
    pSummary,       \* executeParallelHooks: the summary it returned
    sSequence,      \* executeSequence: sequence
    sResults,       \* executeSequence: the results it returned
    taskDescription, \* estimateTaskComplexity, selectOptimalTopology: description
    taskComplexity, \* what estimateTaskComplexity returned
    taskTopology,   \* what selectOptimalTopology returned
    tOptions,       \* PreTaskHook.execute: its options
    tpc,            \* PreTaskHook.execute: the await it stands at
    tPending,       \* child processes it still waits for
    tGithub,        \* what initializeGithubContext resolved to
    tAgentsSpawned, \* execute: agentsSpawned
    tSwarmInit,     \* execute: swarmInit
    tHung,          \* the kind of child process that never exits, if any
    tAllFailed,     \* no claude-flow command of this run has exited with 0
    tResult,        \* PreTaskHook.execute: what it returned
    chainCommand,   \* suggestCommandOptimizations: command
    chainOptimizations, \* what suggestCommandOptimizations returned
    eOptions,       \* PostEditHook.execute: its options
    eRan,           \* the child processes it ran, with their exit codes
    eResult,        \* PostEditHook.execute: what it returned
    ptOptions,      \* PostTaskHook.execute: its options
    ptRan,          \* the child processes it ran
    ptResult,       \* PostTaskHook.execute: what it returned
    seOptions,      \* SessionEndHook.execute: its options
    seRan,          \* the child processes it ran
    seResult,       \* SessionEndHook.execute: what it returned
    swarmFiles      \* the entries of the .swarm directory

tableVars ==
    << ORIGINAL, ENHANCED_PATTERN_TOOLS, ENHANCED_COMPLEXITY_TOOLS, ENHANCED_AGENT_TOOLS >>

matchVars == << matchPrompt, matchResult >>

mergeVars == << rawBatch, merged >>

cacheVars == << clock, ticks, store, storeQueries, cacheEntries, getCall, getResult >>

engineVars == << matchVars, mergeVars, cacheVars >>

resolverVars ==
    << tableVars, engineVars, patterns, complexity, agent_roles, required, rpc, prompt >>

processVars == << envSession, issued >>

commandVars == << cOptions, cResult, cpc >>

batchVars == << pConfigs, pSummary, sSequence, sResults >>

managerVars == << hooks, mSessionId, mCall, mOutcome, batchVars >>

estimateVars == << taskDescription, taskComplexity, taskTopology >>

taskVars ==
    << estimateVars, tOptions, tpc, tPending, tGithub, tAgentsSpawned, tSwarmInit, tHung, tAllFailed,
       tResult >>

chainVars == << chainCommand, chainOptimizations >>

editVars == << eOptions, eRan, eResult >>

postTaskVars == << ptOptions, ptRan, ptResult >>

sessionEndVars == << seOptions, seRan, seResult >>

finishVars == << postTaskVars, sessionEndVars, swarmFiles >>

lifecycleVars == << chainVars, editVars, finishVars >>

hookVars == << processVars, commandVars, managerVars, taskVars, lifecycleVars >>

vars == << resolverVars, hookVars >>

(***************************************************************************)
(* Generic helpers                                                         *)
(***************************************************************************)
Range(s) == { s[i] : i \in DOMAIN s }

\* the JavaScript values undefined and null
Undefined == [ undefined |-> TRUE ]

Null == [ null |-> TRUE ]

SeqsUpTo(S, n) == UNION { [1..k -> S] : k \in 0..n }

\* s[a..b], cut to the characters s has (String.prototype.substring)
Sub(s, a, b) ==
    IF a > b \/ a > Len(s) THEN << >>
    ELSE SubSeq(s, a, IF b > Len(s) THEN Len(s) ELSE b)

\* str.__contains__ / String.prototype.includes on character sequences
Includes(s, sub) ==
    \E i \in 0..(Len(s) - Len(sub)) : SubSeq(s, i + 1, i + Len(sub)) = sub

(***************************************************************************)
(* mcp_tool_mappings_enhanced.py                                           *)
(***************************************************************************)
CTX_RESOLVE == "mcp__context7__resolve-library-id"
CTX_DOCS == "mcp__context7__get-library-docs"
EXA == "mcp__exa__web_search_exa"
C2P_GENERATE == "mcp__code2prompt__generate_codebase_prompt"
C2P_ANALYZE == "mcp__code2prompt__analyze_codebase_structure"
C2P_DIFF == "mcp__code2prompt__generate_diff_prompt"
C2P_FILE == "mcp__code2prompt__generate_file_prompt"

\* The three tables of mcp_tool_mappings, a module this repository imports
\* but does not contain: two stub families, an empty one and one that
\* supplies further patterns, levels and roles.
NoTables == [ pattern_tools |-> << >>, complexity_tools |-> << >>, agent_tools |-> << >> ]

BaseTables ==
    [ pattern_tools |->
        [ p \in {"testing_automation", "code_analysis"} |->
            IF p = "testing_automation"
            THEN [ required |-> << "test_generate" >>, recommended |-> << "performance_report" >> ]
            ELSE [ required |-> << "pattern_recognize" >>, recommended |-> << >> ] ],
      complexity_tools |->
        [ l \in {3, 6} |->
            IF l = 3 THEN << "memory_usage", "neural_train" >>
                     ELSE << "swarm_init", "neural_train" >> ],
      agent_tools |->
        [ a \in {"tester", "coder"} |->
            IF a = "tester" THEN << "test_generate" >> ELSE << "quality_assess" >> ] ]

OriginalTables == { NoTables, BaseTables }

\* ORIGINAL_PATTERN_TOOLS.get(p, {}).get('recommended', [])
OriginalRecommended(orig, p) ==
    IF p \in DOMAIN orig.pattern_tools
    THEN orig.pattern_tools[p].recommended ELSE << >>

ExplicitPatternTools(orig) ==
    [ p \in {"api_development", "frontend_development", "backend_development", "debugging",
             "code_analysis", "documentation_generation", "code_review"} |->
        [ required |->
            CASE p = "api_development" ->
                   << CTX_RESOLVE, CTX_DOCS, EXA, C2P_GENERATE, "workflow_create", "memory_usage" >>
              [] p = "frontend_development" ->
                   << CTX_RESOLVE, CTX_DOCS, EXA, C2P_GENERATE, "workflow_create",
                      "cognitive_analyze", "memory_usage" >>
              [] p = "backend_development" ->
                   << CTX_RESOLVE, CTX_DOCS, EXA, C2P_GENERATE, "workflow_create",
                      "bottleneck_analyze", "memory_usage" >>
              [] p = "debugging" ->
                   << EXA, CTX_RESOLVE, CTX_DOCS, C2P_FILE, C2P_DIFF, "diagnostic_run",
                      "log_analysis", "memory_search" >>
              [] p = "code_analysis" ->
                   << C2P_GENERATE, C2P_ANALYZE, EXA, "cognitive_analyze", "pattern_recognize",
                      "memory_usage" >>
              [] p = "documentation_generation" ->
                   << C2P_GENERATE, C2P_ANALYZE, CTX_RESOLVE, EXA, "workflow_create",
                      "memory_usage" >>
              [] OTHER ->
                   << C2P_DIFF, C2P_FILE, EXA, "github_code_review", "quality_assess",
                      "memory_usage" >>,
          recommended |-> OriginalRecommended(orig, p) ] ]

\* {..., **{pattern: {...} for pattern, tools in ORIGINAL_PATTERN_TOOLS.items()
\*          if pattern not in [the four development patterns]}}
InheritedPatternTools(orig) ==
    [ p \in DOMAIN orig.pattern_tools \
            {"api_development", "frontend_development", "backend_development", "debugging"} |->
        [ required |-> << EXA >> \o orig.pattern_tools[p].required,
          recommended |-> << CTX_RESOLVE, CTX_DOCS >> \o orig.pattern_tools[p].recommended ] ]

\* later keys of a dict display override earlier ones
BuildPatternTools(orig) == InheritedPatternTools(orig) @@ ExplicitPatternTools(orig)

BuildComplexityTools(orig) ==
    [ l \in { k \in DOMAIN orig.complexity_tools : k > 5 } |->
        << CTX_RESOLVE, CTX_DOCS, EXA >> \o orig.complexity_tools[l] ]
    @@
    [ l \in 1..5 |->
        CASE l = 1 -> << EXA >>
          [] l = 2 -> << "memory_usage", EXA >>
          [] l = 3 -> << "memory_usage", "swarm_init", EXA >>
          [] l = 4 -> << "memory_usage", "swarm_init", "agent_spawn", "task_orchestrate",
                         CTX_RESOLVE, EXA >>
          [] OTHER -> << "memory_usage", "swarm_init", "agent_spawn", "task_orchestrate",
                         "workflow_create", CTX_DOCS, EXA >> ]

BuildAgentTools(orig) ==
    [ a \in DOMAIN orig.agent_tools \
            {"coordinator", "researcher", "coder", "analyst", "documenter"} |->
        orig.agent_tools[a] \o << EXA >> ]
    @@
    [ a \in {"coordinator", "researcher", "coder", "analyst", "documenter"} |->
        CASE a = "coordinator" -> << "task_orchestrate", "coordination_sync", EXA >>
          [] a = "researcher" -> << "memory_search", "pattern_recognize", EXA, CTX_RESOLVE, CTX_DOCS >>
          [] a = "coder" -> << "github_code_review", CTX_DOCS, EXA >>
          [] a = "analyst" -> << "cognitive_analyze", "trend_analysis", EXA >>
          [] OTHER -> << "github_repo_analyze", CTX_RESOLVE, CTX_DOCS, EXA >> ]

code_patterns ==
    { "api_development", "frontend_development", "backend_development", "debugging",
      "refactoring", "testing_automation" }

\* Python orders str by code point; the tool identifiers in that order
CodepointOrder ==
    << "agent_spawn", "bottleneck_analyze", "cognitive_analyze", "coordination_sync",
       "diagnostic_run", "github_code_review", "github_repo_analyze", "log_analysis",
       "mcp__code2prompt__analyze_codebase_structure",
       "mcp__code2prompt__generate_codebase_prompt",
       "mcp__code2prompt__generate_diff_prompt",
       "mcp__code2prompt__generate_file_prompt",
       "mcp__context7__get-library-docs", "mcp__context7__resolve-library-id",
       "mcp__exa__web_search_exa", "memory_search", "memory_usage", "neural_train",
       "pattern_recognize", "performance_report", "quality_assess", "swarm_init",
       "task_orchestrate", "test_generate", "trend_analysis", "workflow_create" >>

InSet(S, t) == t \in S

\* the members of S in descending code-point order
sortedDescending(S) ==
    LET asc == SelectSeq(CodepointOrder, LAMBDA t : InSet(S, t))
    IN  [ i \in 1..Len(asc) |-> asc[Len(asc) + 1 - i] ]

\* sorted(list(S)): the members of S in code-point order
sorted(S) == SelectSeq(CodepointOrder, LAMBDA t : InSet(S, t))

\* a resolver whose role loop is missing
RequiredSetWithoutRoles(ps, c, roles) ==
    LET fromPatterns == UNION { Range(ENHANCED_PATTERN_TOOLS[p].required) :
                                  p \in Range(ps) \cap DOMAIN ENHANCED_PATTERN_TOOLS }
        fromComplexity == IF c \in DOMAIN ENHANCED_COMPLEXITY_TOOLS
                          THEN Range(ENHANCED_COMPLEXITY_TOOLS[c]) ELSE {}
        forced == IF \E i \in DOMAIN ps : ps[i] \in code_patterns
                  THEN { CTX_RESOLVE, CTX_DOCS } ELSE {}
    IN  { EXA } \cup fromPatterns \cup fromComplexity \cup forced

\* a resolver that gives a pattern missing from the table a default tool
RequiredSetDefaulting(ps, c, roles) ==
    LET fromPatterns == UNION { IF p \in DOMAIN ENHANCED_PATTERN_TOOLS
                                THEN Range(ENHANCED_PATTERN_TOOLS[p].required)
                                ELSE { "memory_usage" } : p \in Range(ps) }
        fromComplexity == IF c \in DOMAIN ENHANCED_COMPLEXITY_TOOLS
                          THEN Range(ENHANCED_COMPLEXITY_TOOLS[c]) ELSE {}
        fromRoles == UNION { Range(ENHANCED_AGENT_TOOLS[a]) :
                               a \in Range(roles) \cap DOMAIN ENHANCED_AGENT_TOOLS }
        forced == IF \E i \in DOMAIN ps : ps[i] \in code_patterns
                  THEN { CTX_RESOLVE, CTX_DOCS } ELSE {}
    IN  { EXA } \cup fromPatterns \cup fromComplexity \cup fromRoles \cup forced

\* required = set(); required.add(exa); three update loops; the
\* code-pattern rule; return sorted(list(required))
RequiredSet(ps, c, roles) ==
    LET always == { EXA }
        fromPatterns == UNION { Range(ENHANCED_PATTERN_TOOLS[p].required) :
                                  p \in Range(ps) \cap DOMAIN ENHANCED_PATTERN_TOOLS }
        fromComplexity == IF c \in DOMAIN ENHANCED_COMPLEXITY_TOOLS
                          THEN Range(ENHANCED_COMPLEXITY_TOOLS[c]) ELSE {}
        fromRoles == UNION { Range(ENHANCED_AGENT_TOOLS[a]) :
                               a \in Range(roles) \cap DOMAIN ENHANCED_AGENT_TOOLS }
        forced == IF \E i \in DOMAIN ps : ps[i] \in code_patterns
                  THEN { CTX_RESOLVE, CTX_DOCS } ELSE {}
    IN  always \cup fromPatterns \cup fromComplexity \cup fromRoles \cup forced

get_enhanced_required_tools(ps, c, roles) == sorted(RequiredSet(ps, c, roles))

(***************************************************************************)
(* Inputs of the resolver                                                  *)
(***************************************************************************)
MaxPatterns == 2
MaxRoles == 2

PatternNames == { "api_development", "code_analysis", "testing_automation", "unknown_pattern" }
RoleNames == { "coder", "tester" }
Complexities == { 0, 1, 3, 4, 5, 6 }

\* no prompt has been matched
MatchIdle ==
    /\ matchPrompt = Undefined
    /\ matchResult = Undefined

\* no batch of store entries has been folded
MergeIdle ==
    /\ rawBatch = << >>
    /\ merged = Undefined

\* no context cache exists
CacheIdle ==
    /\ clock = 0
    /\ ticks = 0
    /\ store = << >>
    /\ storeQueries = 0
    /\ cacheEntries = << >>
    /\ getCall = Undefined
    /\ getResult = Undefined

EngineIdle == MatchIdle /\ MergeIdle /\ CacheIdle

\* get_enhanced_required_tools has not been called
ToolsIdle ==
    /\ patterns = << >>
    /\ complexity = 0
    /\ agent_roles = << >>
    /\ required = << >>
    /\ rpc = "idle"
    /\ prompt = << >>

ResolverIdle == ToolsIdle /\ EngineIdle

\* import of mcp_tool_mappings_enhanced
TablesInit ==
    /\ ORIGINAL \in OriginalTables
    /\ ENHANCED_PATTERN_TOOLS = BuildPatternTools(ORIGINAL)
    /\ ENHANCED_COMPLEXITY_TOOLS = BuildComplexityTools(ORIGINAL)
    /\ ENHANCED_AGENT_TOOLS = BuildAgentTools(ORIGINAL)

\* no description has been analysed
EstimateIdle ==
    /\ taskDescription = Undefined
    /\ taskComplexity = Undefined
    /\ taskTopology = Undefined

\* no PreTaskHook.execute call has been made
ExecuteIdle ==
    /\ tOptions = Undefined
    /\ tpc = "idle"
    /\ tPending = [ searches |-> 0, git |-> 0, agents |-> 0 ]
    /\ tGithub = Undefined
    /\ tAgentsSpawned = 0
    /\ tSwarmInit = Undefined
    /\ tHung = "none"
    /\ tAllFailed = TRUE
    /\ tResult = Undefined

TaskIdle == EstimateIdle /\ ExecuteIdle

\* no hook runs in the process that resolves tools
\* suggestCommandOptimizations has not been called on its own
ChainIdle ==
    /\ chainCommand = << >>
    /\ chainOptimizations = [ undefined |-> TRUE ]

\* PostEditHook.execute has not been called
EditIdle ==
    /\ eOptions = [ undefined |-> TRUE ]
    /\ eRan = {}
    /\ eResult = [ undefined |-> TRUE ]

\* neither PostTaskHook.execute nor SessionEndHook.execute has been called
FinishIdle ==
    /\ ptOptions = [ undefined |-> TRUE ]
    /\ ptRan = {}
    /\ ptResult = [ undefined |-> TRUE ]
    /\ seOptions = [ undefined |-> TRUE ]
    /\ seRan = {}
    /\ seResult = [ undefined |-> TRUE ]
    /\ swarmFiles = {}

LifecycleIdle == ChainIdle /\ EditIdle /\ FinishIdle

HooksIdle ==
    /\ TaskIdle
    /\ LifecycleIdle
    /\ envSession = ""
    /\ issued = {}
    /\ cOptions = [ undefined |-> TRUE ]
    /\ cResult = [ undefined |-> TRUE ]
    /\ cpc = "idle"
    /\ hooks = << >>
    /\ mSessionId = ""
    /\ mCall = [ undefined |-> TRUE ]
    /\ mOutcome = [ undefined |-> TRUE ]
    /\ pConfigs = [ undefined |-> TRUE ]
    /\ pSummary = [ undefined |-> TRUE ]
    /\ sSequence = [ undefined |-> TRUE ]
    /\ sResults = [ undefined |-> TRUE ]

\* the tool mapping is not loaded in the process that runs the hooks
NotImported ==
    /\ ORIGINAL = << >>
    /\ ENHANCED_PATTERN_TOOLS = << >>
    /\ ENHANCED_COMPLEXITY_TOOLS = << >>
    /\ ENHANCED_AGENT_TOOLS = << >>
    /\ ResolverIdle

ResolverInit ==
    /\ TablesInit
    /\ ResolverIdle
    /\ HooksIdle

\* one call of get_enhanced_required_tools
Resolve ==
    /\ rpc = "idle"
    /\ \E ps \in SeqsUpTo(PatternNames, MaxPatterns), c \in Complexities,
          roles \in SeqsUpTo(RoleNames, MaxRoles) :
        /\ patterns' = ps
        /\ complexity' = c
        /\ agent_roles' = roles
        /\ required' = get_enhanced_required_tools(ps, c, roles)
    /\ rpc' = "returned"
    /\ UNCHANGED << tableVars, engineVars, prompt, hookVars >>

ResolverNext == Resolve

SpecResolver == ResolverInit /\ [][ResolverNext]_vars

(***************************************************************************)
(* Claims about get_enhanced_required_tools                                *)
(***************************************************************************)
\* the tools the docstring promises for every call
AlwaysOnTools == { CTX_RESOLVE, CTX_DOCS, EXA }

\* C6: the returned set contains every always-on tool (both context7
\* tools and the exa search tool), whatever the inputs are.
C6_AlwaysOnIncluded ==
    rpc = "returned" => AlwaysOnTools \subseteq Range(required)

\* C7: every tool the tables list as required for a pattern, the exact
\* complexity level or a role that is present in its table is returned.
C7_TableToolsReturned ==
    rpc = "returned" =>
        /\ \A i \in DOMAIN patterns :
              patterns[i] \in DOMAIN ENHANCED_PATTERN_TOOLS =>
                Range(ENHANCED_PATTERN_TOOLS[patterns[i]].required) \subseteq Range(required)
        /\ complexity \in DOMAIN ENHANCED_COMPLEXITY_TOOLS =>
              Range(ENHANCED_COMPLEXITY_TOOLS[complexity]) \subseteq Range(required)
        /\ \A i \in DOMAIN agent_roles :
              agent_roles[i] \in DOMAIN ENHANCED_AGENT_TOOLS =>
                Range(ENHANCED_AGENT_TOOLS[agent_roles[i]]) \subseteq Range(required)

\* a call whose pattern, level and role all come from the inherited tables
C7_Witness ==
    /\ rpc = "returned"
    /\ ORIGINAL = BaseTables
    /\ \E i \in DOMAIN patterns : patterns[i] = "code_analysis"
    /\ complexity = 6
    /\ \E i \in DOMAIN agent_roles : agent_roles[i] = "tester"
    /\ "pattern_recognize" \in Range(required)
    /\ "neural_train" \in Range(required)
    /\ "test_generate" \in Range(required)

\* the sequences over the members of s that mention each of them, up to
\* one element longer than s: its permutations and its repetitions
Reorderings(s) ==
    { t \in SeqsUpTo(Range(s), Len(s) + 1) : Range(t) = Range(s) }

\* C8: the returned list has no duplicates, ascends in code-point order,
\* and is the same for every permutation and repetition of the patterns
\* and of the roles.
C8_SortedSetOrderFree ==
    rpc = "returned" =>
        /\ \A i, j \in DOMAIN required : i < j =>
              \E a, b \in DOMAIN CodepointOrder :
                  /\ CodepointOrder[a] = required[i]
                  /\ CodepointOrder[b] = required[j]
                  /\ a < b
        /\ \A ps \in Reorderings(patterns) :
              get_enhanced_required_tools(ps, complexity, agent_roles) = required
        /\ \A roles \in Reorderings(agent_roles) :
              get_enhanced_required_tools(patterns, complexity, roles) = required

\* a call with two different patterns and two different roles
C8_Witness ==
    /\ rpc = "returned"
    /\ Len(patterns) = 2 /\ patterns[1] # patterns[2]
    /\ Len(agent_roles) = 2 /\ agent_roles[1] # agent_roles[2]
    /\ Len(required) > 3

PresentPatterns == SelectSeq(patterns, LAMBDA p : InSet(DOMAIN ENHANCED_PATTERN_TOOLS, p))
PresentRoles == SelectSeq(agent_roles, LAMBDA a : InSet(DOMAIN ENHANCED_AGENT_TOOLS, a))
PresentComplexity == IF complexity \in DOMAIN ENHANCED_COMPLEXITY_TOOLS THEN complexity ELSE -1

UpperCase ==
    << "A","B","C","D","E","F","G","H","I","J","K","L","M","N","O","P","Q","R","S","T","U","V","W","X","Y","Z" >>
LowerCase ==
    << "a","b","c","d","e","f","g","h","i","j","k","l","m","n","o","p","q","r","s","t","u","v","w","x","y","z" >>

\* str.lower / String.prototype.toLowerCase on the letters A-Z
ToLower(s) ==
    [ i \in DOMAIN s |->
        IF \E k \in DOMAIN UpperCase : UpperCase[k] = s[i]
        THEN LowerCase[CHOOSE k \in DOMAIN UpperCase : UpperCase[k] = s[i]]
        ELSE s[i] ]

\* " ".join(words)
RECURSIVE JoinWords(_)
JoinWords(ws) ==
    IF ws = << >> THEN << >>
    ELSE IF Len(ws) = 1 THEN ws[1]
    ELSE ws[1] \o << " " >> \o JoinWords(Tail(ws))

CONTEXT7_TRIGGERS ==
    << <<"l","i","b","r","a","r","y">>, <<"f","r","a","m","e","w","o","r","k">>,
       <<"p","a","c","k","a","g","e">>, <<"m","o","d","u","l","e">>, <<"a","p","i">>, <<"s","d","k">>,
       <<"d","o","c","u","m","e","n","t","a","t","i","o","n">>, <<"h","o","w"," ","t","o">>,
       <<"h","o","w"," ","d","o">>, <<"e","x","a","m","p","l","e">>,
       <<"t","u","t","o","r","i","a","l">>, <<"g","u","i","d","e">>,
       <<"r","e","f","e","r","e","n","c","e">>, <<"d","o","c","s">>, <<"u","s","a","g","e">>,
       <<"s","y","n","t","a","x">>, <<"m","e","t","h","o","d">>, <<"f","u","n","c","t","i","o","n">>,
       <<"c","l","a","s","s">>, <<"i","n","t","e","r","f","a","c","e">>, <<"h","o","o","k">>,
       <<"c","o","m","p","o","n","e","n","t">>, <<"r","e","a","c","t">>, <<"v","u","e">>,
       <<"a","n","g","u","l","a","r">>, <<"e","x","p","r","e","s","s">>, <<"d","j","a","n","g","o">>,
       <<"f","l","a","s","k">> >>

EXA_TRIGGERS ==
    << <<"s","e","a","r","c","h">>, <<"f","i","n","d">>, <<"l","a","t","e","s","t">>,
       <<"c","u","r","r","e","n","t">>, <<"b","e","s","t"," ","p","r","a","c","t","i","c","e">>,
       <<"s","o","l","u","t","i","o","n">>, <<"a","l","t","e","r","n","a","t","i","v","e">>,
       <<"c","o","m","p","a","r","e">>, <<"v","s">>, <<"v","e","r","s","u","s">>,
       <<"r","e","c","o","m","m","e","n","d">>, <<"s","u","g","g","e","s","t","i","o","n">>,
       <<"h","o","w">>, <<"w","h","a","t">>, <<"w","h","y">>, <<"w","h","e","n">>,
       <<"s","h","o","u","l","d">>, <<"c","o","u","l","d">>, <<"w","o","u","l","d">>,
       <<"e","r","r","o","r">>, <<"b","u","g">>, <<"i","s","s","u","e">>,
       <<"p","r","o","b","l","e","m">>, <<"f","i","x">>, <<"s","o","l","v","e">>,
       <<"d","e","b","u","g">>, <<"h","e","l","p">> >>

\* a should_use_context7 that compares without lower-casing the prompt
should_use_context7_cased(p) ==
    \E i \in DOMAIN CONTEXT7_TRIGGERS : Includes(p, CONTEXT7_TRIGGERS[i])

\* prompt_lower = prompt.lower(); any trigger.lower() in prompt_lower
should_use_context7(p) ==
    LET prompt_lower == ToLower(p)
    IN  \E i \in DOMAIN CONTEXT7_TRIGGERS : Includes(prompt_lower, ToLower(CONTEXT7_TRIGGERS[i]))

should_use_exa(p) ==
    LET prompt_lower == ToLower(p)
    IN  \E i \in DOMAIN EXA_TRIGGERS : Includes(prompt_lower, ToLower(EXA_TRIGGERS[i]))

\* resolver step 5: the tools a prompt's triggers add
TriggeredTools(p) ==
    (IF should_use_context7(p) THEN { CTX_RESOLVE, CTX_DOCS } ELSE {})
    \cup (IF should_use_exa(p) THEN { EXA } ELSE {})

\* the resolver's union of the table tools and the triggered tools
resolve(p, ps, c, roles) == sorted(RequiredSet(ps, c, roles) \cup TriggeredTools(p))

MaxPromptWords == 2

PromptWords ==
    { <<"h","i">>, <<"A","P","I">>, <<"D","o","c","s">>, <<"h","o","w">>, <<"t","o">> }

Prompts == { JoinWords(ws) : ws \in SeqsUpTo(PromptWords, MaxPromptWords) }

AnalyzeInit ==
    /\ TablesInit
    /\ ResolverIdle
    /\ HooksIdle

\* one analysis of a prompt: the matcher, the scorer and the recommender
\* hand the resolver some patterns, a level and some roles
AnalyzePrompt ==
    /\ rpc = "idle"
    /\ \E p \in Prompts, ps \in SeqsUpTo(PatternNames, 1), c \in Complexities,
          roles \in SeqsUpTo(RoleNames, 1) :
        /\ prompt' = p
        /\ patterns' = ps
        /\ complexity' = c
        /\ agent_roles' = roles
        /\ required' = resolve(p, ps, c, roles)
    /\ rpc' = "returned"
    /\ UNCHANGED << tableVars, engineVars, hookVars >>

AnalyzeNext == AnalyzePrompt

SpecAnalyze == AnalyzeInit /\ [][AnalyzeNext]_vars

DocTriggerIn(p) ==
    LET lower == ToLower(p)
    IN  \E i \in DOMAIN CONTEXT7_TRIGGERS : Includes(lower, CONTEXT7_TRIGGERS[i])

AnyTriggerIn(p) ==
    LET lower == ToLower(p)
    IN  \/ \E i \in DOMAIN CONTEXT7_TRIGGERS : Includes(lower, CONTEXT7_TRIGGERS[i])
        \/ \E i \in DOMAIN EXA_TRIGGERS : Includes(lower, EXA_TRIGGERS[i])

IsTrue(obj, f) == f \in DOMAIN obj /\ obj[f] = TRUE

StartsWith(s, pre) == Len(pre) <= Len(s) /\ SubSeq(s, 1, Len(pre)) = pre

IncludesAny(s, subs) == \E i \in DOMAIN subs : Includes(s, subs[i])

\* the index of the first non-blank character at or after i, Len(s) + 1 if none
RECURSIVE SkipBlanks(_, _)
SkipBlanks(s, i) == IF i <= Len(s) /\ s[i] = " " THEN SkipBlanks(s, i + 1) ELSE i

\* the index after the run of non-blank characters that starts at i
RECURSIVE SkipWord(_, _)
SkipWord(s, i) == IF i <= Len(s) /\ s[i] # " " THEN SkipWord(s, i + 1) ELSE i

dangerousCommands ==
    << <<"r","m"," ","-","r","f">>, <<"d","d"," ","i","f","=">>, <<"m","k","f","s">>,
       <<"f","o","r","m","a","t">>, <<":","(",")","{"," ",":","|",":","&"," ","}",";",":">>,
       <<"c","h","m","o","d"," ","-","R"," ","7","7","7">>, <<"c","h","o","w","n"," ","-","R">>,
       <<">"," ","/","d","e","v","/","s","d","a">>, <<"m","v"," ","/","*"," ">>,
       <<"w","g","e","t"," ","-","O"," ","-"," ","|"," ","s","h">>,
       <<"c","u","r","l"," ","|"," ","b","a","s","h">> >>

resourceIntensive ==
    << <<"f","i","n","d"," ","/">>, <<"g","r","e","p"," ","-","r"," ","/">>,
       <<"n","p","m"," ","i","n","s","t","a","l","l">>,
       <<"y","a","r","n"," ","i","n","s","t","a","l","l">>,
       <<"d","o","c","k","e","r"," ","b","u","i","l","d">>, <<"m","a","k","e"," ","-","j">>,
       <<"c","a","r","g","o"," ","b","u","i","l","d">>, <<"g","o"," ","b","u","i","l","d">> >>

\* /rm\s|del\s|rmdir|mv\s|cp\s/ (the blank is the only white space of the alphabet)
FileSystemOps ==
    << <<"r","m"," ">>, <<"d","e","l"," ">>, <<"r","m","d","i","r">>, <<"m","v"," ">>, <<"c","p"," ">> >>

\* /wget|curl|nc|telnet|ssh|scp/
NetworkOps ==
    << <<"w","g","e","t">>, <<"c","u","r","l">>, <<"n","c">>, <<"t","e","l","n","e","t">>, <<"s","s","h">>, <<"s","c","p">> >>

\* /\|\s*(bash|sh|python|node|ruby)/
Interpreters ==
    << <<"b","a","s","h">>, <<"s","h">>, <<"p","y","t","h","o","n">>, <<"n","o","d","e">>, <<"r","u","b","y">> >>

PipesToInterpreter(command) ==
    \E i \in DOMAIN command :
        /\ command[i] = "|"
        /\ LET rest == Sub(command, SkipBlanks(command, i + 1), Len(command))
           IN  \E k \in DOMAIN Interpreters : StartsWith(rest, Interpreters[k])

\* expandPaths: every ~ becomes the home directory
RECURSIVE expandPaths(_, _)
expandPaths(command, home) ==
    IF command = << >> THEN << >>
    ELSE (IF Head(command) = "~" THEN home ELSE << Head(command) >>)
         \o expandPaths(Tail(command), home)

When(cond, warning) == IF cond THEN << warning >> ELSE << >>

\* a validateCommandSafety that tests only the start of the command
validateCommandSafetyAtStart(command, home) ==
    LET hits == SelectSeq(dangerousCommands, LAMBDA d : StartsWith(command, d))
    IN  [ safe |-> hits = << >>,
          warnings |-> [ i \in DOMAIN hits |-> << "Dangerous command pattern detected", hits[i] >> ],
          riskLevel |-> IF hits = << >> THEN "low" ELSE "critical" ]

validateCommandSafety(command, home) ==
    LET hits == SelectSeq(dangerousCommands, LAMBDA d : Includes(command, d))
        sudo == StartsWith(command, <<"s","u","d","o">>) \/ Includes(command, <<"|"," ","s","u","d","o">>)
        fsOp == IncludesAny(command, FileSystemOps)
        netOp == IncludesAny(command, NetworkOps)
        piped == PipesToInterpreter(command)
        expanded == expandPaths(command, home)
        system == /\ Includes(command, <<".",".">>) \/ Includes(command, <<"~">>)
                  /\ IncludesAny(expanded, << <<"/","e","t","c","/">>, <<"/","s","y","s","/">>, <<"/","p","r","o","c","/">> >>)
    IN  [ safe |-> hits = << >>,
          warnings |->
              [ i \in DOMAIN hits |-> << "Dangerous command pattern detected", hits[i] >> ]
              \o When(sudo, << "Command requires elevated privileges", << >> >>)
              \o When(fsOp, << "Command performs file system operations", << >> >>)
              \o When(netOp, << "Command performs network operations", << >> >>)
              \o When(piped, << "Command pipes to script interpreter", << >> >>)
              \o When(system, << "Command accesses system directories", << >> >>),
          riskLevel |->
              IF system \/ piped \/ sudo THEN "high"
              ELSE IF hits # << >> THEN "critical"
              ELSE IF fsOp \/ netOp THEN "medium"
              ELSE "low" ]

\* command.split(/\s+/)[0]
FirstToken(command) == Sub(command, 1, SkipWord(command, 1) - 1)

\* The outcomes of a call's environment: which finds the program, the
\* files asked for exist, and the system is healthy (mkdir succeeds, the
\* docker daemon runs, the disk has room, the git tree is clean).
CommandEnvs == [ which : BOOLEAN, files : BOOLEAN, healthy : BOOLEAN ]

checkCommandDependencies(command, env) ==
    LET npm == Includes(command, <<"n","p","m"," ">>)
        python == Includes(command, <<"p","i","p"," ">>) \/ Includes(command, <<"p","y","t","h","o","n"," ">>)
        docker == Includes(command, <<"d","o","c","k","e","r"," ">>)
        git == Includes(command, <<"g","i","t"," ">>)
    IN  [ available |-> env.which,
          missing |->
              When(~env.which, FirstToken(command))
              \o When(docker /\ ~env.healthy, <<"d","o","c","k","e","r","-","d","a","e","m","o","n">>)
              \o When(git /\ ~env.files, <<"g","i","t","-","r","e","p","o","s","i","t","o","r","y">>),
          requirements |->
              (IF npm THEN << "node", "npm" >> \o When(env.files, "package.json") ELSE << >>)
              \o (IF python THEN << "python" >> \o When(env.files, "requirements.txt") ELSE << >>)
              \o When(docker, "docker")
              \o When(git, "git") ]

\* /find .* -name/
FindByName(command) ==
    \E i \in 1..Len(command) :
        /\ Sub(command, i, i + 4) = <<"f","i","n","d"," ">>
        /\ Includes(Sub(command, i + 5, Len(command)), <<" ","-","n","a","m","e">>)

predictCommandPerformance(command) ==
    LET hits == SelectSeq(resourceIntensive, LAMBDA r : Includes(command, r))
        searching == \E i \in DOMAIN hits :
                        Includes(hits[i], <<"f","i","n","d">>) \/ Includes(hits[i], <<"g","r","e","p">>)
        building == \E i \in DOMAIN hits :
                        Includes(hits[i], <<"i","n","s","t","a","l","l">>) \/ Includes(hits[i], <<"b","u","i","l","d">>)
        install == Includes(command, <<"n","p","m"," ","i","n","s","t","a","l","l">>) \/ Includes(command, <<"y","a","r","n"," ","i","n","s","t","a","l","l">>)
        dockerBuild == Includes(command, <<"d","o","c","k","e","r"," ","b","u","i","l","d">>)
        grepR == Includes(command, <<"g","r","e","p"," ","-","r">>)
        cpu == searching \/ dockerBuild \/ grepR
        disk == searching \/ building \/ dockerBuild \/ FindByName(command) \/ grepR
        network == building \/ install
        intensiveCount == (IF cpu THEN 1 ELSE 0) + (IF disk THEN 1 ELSE 0)
                          + (IF network THEN 1 ELSE 0)
    IN  [ estimatedDuration |->
              IF intensiveCount >= 3 THEN "very slow"
              ELSE IF intensiveCount >= 2 THEN "slow"
              ELSE IF intensiveCount >= 1 THEN "moderate"
              ELSE IF hits # << >> \/ install \/ dockerBuild THEN "slow"
              ELSE "fast",
          cpuIntensive |-> cpu,
          memoryIntensive |-> FALSE,
          diskIntensive |-> disk,
          networkIntensive |-> network,
          recommendations |->
              (IF install THEN << "Consider using npm ci for faster installs",
                                  "Enable npm cache for improved performance" >> ELSE << >>)
              \o (IF dockerBuild THEN << "Use docker build cache effectively",
                                         "Consider multi-stage builds for smaller images" >>
                  ELSE << >>)
              \o (IF FindByName(command)
                  THEN << "Consider using fd or locate for faster file searches",
                          "Limit search scope to specific directories" >> ELSE << >>)
              \o (IF grepR THEN << "Use ripgrep (rg) for faster recursive searches",
                                   "Consider using --include patterns to limit file types" >>
                  ELSE << >>) ]

\* the word a redirection at index i writes to: />\s*([^\s]+)/ anchored at i
RedirectTarget(s, i) ==
    LET from == SkipBlanks(s, i + 1)
    IN  Sub(s, from, SkipWord(s, from) - 1)

\* the word after "mkdir -p" at index i: /mkdir\s+-p\s+([^\s]+)/ anchored at i
MkdirTarget(s, i) ==
    LET flag == SkipBlanks(s, i + 5)
        from == SkipBlanks(s, flag + 2)
    IN  IF /\ Sub(s, i, i + 4) = <<"m","k","d","i","r">>
           /\ flag > i + 5
           /\ Sub(s, flag, flag + 1) = <<"-","p">>
           /\ from > flag + 2
        THEN Sub(s, from, SkipWord(s, from) - 1)
        ELSE << >>

\* command.match(/(?:mkdir\s+-p\s+|>\s*)([^\s]+)/): group 1 of the
\* leftmost match, << >> when there is none
DirMatch(command) ==
    LET at(i) == IF command[i] = ">" THEN RedirectTarget(command, i)
                 ELSE MkdirTarget(command, i)
        found == { i \in DOMAIN command : at(i) # << >> }
    IN  IF found = {} THEN << >>
        ELSE at(CHOOSE i \in found : \A j \in found : i <= j)

\* path.dirname of a path without a trailing slash
dirname(p) ==
    LET slashes == { i \in DOMAIN p : p[i] = "/" }
        last == CHOOSE i \in slashes : \A j \in slashes : j <= i
    IN  IF slashes = {} THEN << "." >>
        ELSE IF last = 1 THEN << "/" >>
        ELSE Sub(p, 1, last - 1)

\* prepareCommandResources; [ threw |-> message ] when fs.mkdir rejects
prepareCommandResources(command, requirements, env) ==
    LET dir == dirname(DirMatch(command))
        makesDir == /\ Includes(command, <<"m","k","d","i","r">>) \/ Includes(command, <<">"," ">>)
                    /\ DirMatch(command) # << >>
                    /\ dir # << "." >>
                    /\ ~env.files
        checksDisk == \/ \E i \in DOMAIN requirements : requirements[i] = "docker"
                      \/ Includes(command, <<"i","n","s","t","a","l","l">>)
        checksGit == /\ \E i \in DOMAIN requirements : requirements[i] = "git"
                     /\ Includes(command, <<"g","i","t"," ","p","u","l","l">>)
    IN  IF makesDir /\ ~env.healthy
        THEN [ threw |-> "EACCES: permission denied, mkdir" ]
        ELSE [ ready |-> ~(checksDisk /\ ~env.healthy),
               actions |->
                   When(makesDir, << "Created directory", dir >>)
                   \o When(checksDisk /\ ~env.healthy,
                           << "Warning: Low disk space available", << >> >>)
                   \o When(checksGit /\ ~env.healthy,
                           << "Warning: Uncommitted changes in git repository", << >> >>) ]

\* String.prototype.trim for blanks
RECURSIVE Trim(_)
Trim(s) ==
    IF s # << >> /\ Head(s) = " " THEN Trim(Tail(s))
    ELSE IF s # << >> /\ s[Len(s)] = " " THEN Trim(Sub(s, 1, Len(s) - 1))
    ELSE s

\* command.split('&&').map(c => c.trim())
RECURSIVE SplitChain(_)
SplitChain(command) ==
    LET cuts == { i \in 1..(Len(command) - 1) : command[i] = "&" /\ command[i + 1] = "&" }
        cut == CHOOSE i \in cuts : \A j \in cuts : i <= j
    IN  IF cuts = {} THEN << Trim(command) >>
        ELSE << Trim(Sub(command, 1, cut - 1)) >>
             \o SplitChain(Sub(command, cut + 2, Len(command)))

\* cmd.match(/>\s*([^\s]+)/): group 1 of the leftmost match, << >> if none
OutputMatch(cmd) ==
    LET found == { i \in DOMAIN cmd : cmd[i] = ">" /\ RedirectTarget(cmd, i) # << >> }
    IN  IF found = {} THEN << >>
        ELSE RedirectTarget(cmd, CHOOSE i \in found : \A j \in found : i <= j)

\* identifyParallelizable: the loop over commands[k..], with the redirect
\* targets seen so far
RECURSIVE identifyParallelizableFrom(_, _, _)
identifyParallelizableFrom(commands, k, dependencies) ==
    IF k > Len(commands) THEN << >>
    ELSE LET cmd == commands[k]
             isIndependent == \/ ~Includes(cmd, << ">" >>)
                              \/ ~\E dep \in dependencies : Includes(cmd, dep)
             target == OutputMatch(cmd)
         IN  When(isIndependent, cmd)
             \o identifyParallelizableFrom(commands, k + 1,
                    IF target # << >> THEN dependencies \cup { target } ELSE dependencies)

identifyParallelizable(commands) == identifyParallelizableFrom(commands, 1, {})

alternatives ==
    << <<"r","m"," ","-","r","f">>, <<"f","i","n","d"," ",".">>, <<"g","r","e","p"," ","-","r">>,
       <<"c","a","t"," ","*"," ","|"," ","g","r","e","p">>,
       <<"p","s"," ","a","u","x"," ","|"," ","g","r","e","p">>,
       <<"n","p","m"," ","i","n","s","t","a","l","l">>,
       <<"y","a","r","n"," ","i","n","s","t","a","l","l">> >>

\* suggestCommandOptimizations; performance is what execute passes, which
\* may be undefined or another check's result
suggestCommandOptimizations(command, performance) ==
    LET parallelizable == identifyParallelizable(SplitChain(command))
        matched == SelectSeq(alternatives, LAMBDA a : Includes(command, a))
        recs == IF "recommendations" \in DOMAIN performance
                THEN performance.recommendations ELSE << >>
    IN  When(Includes(command, << "&", "&" >>) /\ Len(parallelizable) > 1,
             [ type |-> "parallel", commands |-> parallelizable ])
        \o [ i \in DOMAIN matched |-> [ type |-> "alternative", pattern |-> matched[i] ] ]
        \o When(IsTrue(performance, "cpuIntensive"),
                [ type |-> "resource",
                  suggestion |-> "Consider limiting CPU usage with nice or cpulimit" ])
        \o When(IsTrue(performance, "memoryIntensive"),
                [ type |-> "resource",
                  suggestion |-> "Monitor memory usage and consider using ulimit" ])
        \o [ i \in DOMAIN recs |-> [ type |-> "performance", suggestion |-> recs[i] ] ]

\* logCommandIntent: the external commands it issues
logCommandIntent(sessionId, results) ==
    { [ cmd |-> "memory store", key |-> << "command", sessionId >> ] }
    \cup (IF results.warnings # << >>
          THEN { [ cmd |-> "hooks notify", key |-> << "Pre-command validation" >> ] }
          ELSE {})

\* const [safety, dependencies, performance] = await Promise.all(operations)
Positional(operations, i) == IF i <= Len(operations) THEN operations[i] ELSE Undefined

\* process.env.HOME
HomeDir == << "/", "h" >>


\* What one PreCommandHook.execute call returns and which claude-flow
\* commands it issues on the way.
PreCommandOutcome(options, sessionId, env) ==
    LET command == options.command
        results == [ command |-> command, continue |-> TRUE, safe |-> TRUE,
                     optimizations |-> << >>, warnings |-> << >>,
                     resources |-> Null, performance |-> Null ]
        operations ==
            When(options.validateSafety, validateCommandSafety(command, HomeDir))
            \o When(options.checkDependencies, checkCommandDependencies(command, env))
            \o When(options.predictPerformance, predictCommandPerformance(command))
        safety == Positional(operations, 1)
        dependencies == Positional(operations, 2)
        performance == Positional(operations, 3)
        blocked == [ results EXCEPT !.safe = FALSE, !.continue = FALSE ]
        passed == [ results EXCEPT
                      !.warnings = IF "warnings" \in DOMAIN safety THEN safety.warnings
                                   ELSE << >>,
                      !.performance = performance ]
        prepares == options.prepareResources /\ "requirements" \in DOMAIN dependencies
        resources == prepareCommandResources(command, dependencies.requirements, env)
        final == [ passed EXCEPT
                     !.resources = IF prepares THEN resources ELSE Null,
                     !.optimizations =
                         IF options.suggestOptimizations
                         THEN suggestCommandOptimizations(command, performance)
                         ELSE << >> ]
    IN  IF command = << >>
        THEN [ result |-> [ continue |-> FALSE, error |-> "Command is required" ],
               issued |-> {} ]
        ELSE IF safety # Undefined /\ ~IsTrue(safety, "safe")
        THEN IF "warnings" \in DOMAIN safety
             THEN [ result |-> [ blocked EXCEPT !.warnings = safety.warnings ],
                    issued |-> {} ]
             ELSE [ result |-> blocked @@ [ error |-> "TypeError: not iterable" ],
                    issued |-> {} ]
        ELSE IF prepares /\ "threw" \in DOMAIN resources
        THEN [ result |-> [ passed EXCEPT !.continue = FALSE ]
                          @@ [ error |-> resources.threw ],
               issued |-> {} ]
        ELSE [ result |-> final, issued |-> logCommandIntent(sessionId, final) ]

(***************************************************************************)
(* PreCommandHook run on its own (the CLI of pre-command.js)               *)
(***************************************************************************)
MaxCommandWords == 2

CommandWords ==
    { <<"r","m">>, <<"-","r","f">>, <<"s","u","d","o">>, <<"r","e","f","o","r","m","a","t">>, <<"i","n","s","t","a","l","l">> }

Commands == { JoinWords(ws) : ws \in SeqsUpTo(CommandWords, MaxCommandWords) }

CommandOptions ==
    [ command : Commands, validateSafety : BOOLEAN, prepareResources : BOOLEAN,
      checkDependencies : BOOLEAN, suggestOptimizations : BOOLEAN,
      predictPerformance : BOOLEAN ]

Unset == ""

\* process.env.CLAUDE_FLOW_SESSION || `session-${Date.now()}`
SessionFromEnv(env, generated) == IF env # Unset THEN env ELSE generated

\* index.js is not loaded: no HookManager exists
\* neither executeParallelHooks nor executeSequence has been called
BatchIdle ==
    /\ pConfigs = Undefined
    /\ pSummary = Undefined
    /\ sSequence = Undefined
    /\ sResults = Undefined

ManagerIdle ==
    /\ hooks = << >>
    /\ mSessionId = Unset
    /\ mCall = Undefined
    /\ mOutcome = Undefined
    /\ BatchIdle

CommandIdle ==
    /\ cOptions = Undefined
    /\ cResult = Undefined
    /\ cpc = "idle"

ProcessInit ==
    /\ envSession \in { Unset, "session-env" }
    /\ issued = {}

CommandInit ==
    /\ ProcessInit
    /\ CommandIdle
    /\ TaskIdle
    /\ ManagerIdle
    /\ NotImported
    /\ LifecycleIdle

\* new PreCommandHook().execute(options)
PreCommandExecute ==
    /\ cpc = "idle"
    /\ \E options \in CommandOptions, env \in CommandEnvs :
          LET outcome == PreCommandOutcome(options,
                             SessionFromEnv(envSession, "session-<hook start>"), env)
          IN  /\ cOptions' = options
              /\ cResult' = outcome.result
              /\ issued' = outcome.issued
    /\ cpc' = "returned"
    /\ UNCHANGED << envSession, managerVars, taskVars, resolverVars, lifecycleVars >>

CommandNext == PreCommandExecute

SpecCommand == CommandInit /\ [][CommandNext]_vars

\* some dangerous pattern occurs in the command
Dangerous(command) == \E i \in DOMAIN dangerousCommands : Includes(command, dangerousCommands[i])

\* C1: with validateSafety on, a command that contains a dangerousCommands
\* entry anywhere is reported unsafe, is stopped, and has a warning for each
\* entry it contains, whatever the other four flags are.
C1_DangerousBlocked ==
    (cpc = "returned" /\ cOptions.validateSafety /\ Dangerous(cOptions.command)) =>
        /\ IsTrue(cResult, "safe") = FALSE /\ "safe" \in DOMAIN cResult
        /\ IsTrue(cResult, "continue") = FALSE
        /\ \A i \in DOMAIN dangerousCommands :
              Includes(cOptions.command, dangerousCommands[i]) =>
                \E w \in DOMAIN cResult.warnings :
                    cResult.warnings[w] =
                        << "Dangerous command pattern detected", dangerousCommands[i] >>

\* a blocked command whose pattern sits inside a longer word, after
\* another word, with every other check switched off
C1_Witness ==
    /\ cpc = "returned"
    /\ cOptions.validateSafety
    /\ ~cOptions.checkDependencies /\ ~cOptions.predictPerformance
    /\ ~cOptions.prepareResources /\ ~cOptions.suggestOptimizations
    /\ cOptions.command = JoinWords(<< <<"s","u","d","o">>, <<"r","e","f","o","r","m","a","t">> >>)
    /\ cResult.safe = FALSE
    /\ cResult.continue = FALSE

(***************************************************************************)
(* src/hooks/optimized/index.js: HookManager                               *)
(***************************************************************************)
\* HookManager.constructor: this.hooks
BuiltinHooks ==
    [ n \in { "pre-task", "post-task", "pre-command", "pre-bash", "post-edit", "session-end" } |->
        CASE n = "pre-task" -> "PreTaskHook"
          [] n = "post-task" -> "PostTaskHook"
          [] n = "post-edit" -> "PostEditHook"
          [] n = "session-end" -> "SessionEndHook"
          [] OTHER -> "PreCommandHook" ]

\* Hook classes a caller can register: one whose constructor throws an
\* Error, one whose execute rejects with an Error, one whose execute
\* rejects with no reason (Promise.reject()), one whose execute resolves
\* to no value, and one that works.
CustomClasses ==
    { "ThrowingConstructor", "RejectingExecute", "RejectingWithNothing", "ReturningNothing",
      "ReturningSuccess" }

\* a PreCommandHook run: execute catches what it throws and resolves
PreCommandRun(outcome) ==
    [ constructed |-> TRUE, settled |-> "resolved", value |-> outcome.result,
      issued |-> outcome.issued ]

\* new HookClass() followed by hook.execute(options): whether the instance
\* was constructed, how the run settled, and the commands it issued
HookRun(HookClass, options, env, hookSession) ==
    CASE HookClass = "ThrowingConstructor" ->
           [ constructed |-> FALSE, settled |-> "rejected",
             reason |-> [ message |-> "constructor failed" ], issued |-> {} ]
      [] HookClass = "RejectingExecute" ->
           [ constructed |-> TRUE, settled |-> "rejected",
             reason |-> [ message |-> "execute failed" ], issued |-> {} ]
      [] HookClass = "RejectingWithNothing" ->
           [ constructed |-> TRUE, settled |-> "rejected", reason |-> Undefined, issued |-> {} ]
      [] HookClass = "ReturningNothing" ->
           [ constructed |-> TRUE, settled |-> "resolved", value |-> Undefined, issued |-> {} ]
      [] HookClass = "ReturningSuccess" ->
           [ constructed |-> TRUE, settled |-> "resolved", value |-> [ success |-> TRUE ],
             issued |-> {} ]
      [] HookClass = "PreCommandHook" ->
           IF options = Null
           THEN [ constructed |-> TRUE, settled |-> "rejected",
                  reason |-> [ message |-> "TypeError: cannot destructure null" ],
                  issued |-> {} ]
           ELSE PreCommandRun(PreCommandOutcome(options, hookSession, env))

\* trackHookPerformance / logHookError: the memory store command issued
HookRecord(kind, hookName) == { [ cmd |-> "memory store", key |-> << kind, "hooks", hookName >> ] }

\* executeHook after the hook has run: the try block's tail and the catch
SettleHook(run, sessionId, env0, hookName) ==
    LET after == IF run.constructed THEN sessionId ELSE env0
        \* result.success throws on a result that is undefined
        error == IF run.settled = "rejected" THEN run.reason
                 ELSE [ message |-> "TypeError: cannot read 'success' of undefined" ]
    IN  IF run.settled = "resolved" /\ run.value # Undefined
        THEN [ settled |-> "resolved", value |-> run.value,
               issued |-> run.issued \cup HookRecord("metrics", hookName),
               envSession |-> after ]
        ELSE IF error = Undefined
        THEN \* error.message throws inside the catch block
             [ settled |-> "rejected",
               reason |-> [ message |-> "TypeError: cannot read 'message' of undefined" ],
               issued |-> run.issued, envSession |-> after ]
        ELSE [ settled |-> "resolved",
               value |-> [ success |-> FALSE, error |-> error.message ],
               issued |-> run.issued \cup HookRecord("errors", hookName),
               envSession |-> after ]

\* an executeHook that sends an unknown name through its catch block
ExecuteHookOutcomeThrowing(registry, sessionId, env0, hookName, options, env) ==
    IF hookName \notin DOMAIN registry
    THEN [ settled |-> "resolved",
           value |-> [ success |-> FALSE, error |-> << "Unknown hook", hookName >> ],
           issued |-> HookRecord("errors", hookName), envSession |-> env0 ]
    ELSE SettleHook(HookRun(registry[hookName], options, env,
                            SessionFromEnv(env0, "session-<hook start>")),
                    sessionId, env0, hookName)

\* HookManager.executeHook: how the returned promise settles, the commands
\* issued, and process.env.CLAUDE_FLOW_SESSION afterwards
ExecuteHookOutcome(registry, sessionId, env0, hookName, options, env) ==
    IF hookName \notin DOMAIN registry
    THEN [ settled |-> "resolved",
           value |-> [ success |-> FALSE, error |-> << "Unknown hook", hookName >> ],
           issued |-> {}, envSession |-> env0 ]
    ELSE SettleHook(HookRun(registry[hookName], options, env,
                            SessionFromEnv(env0, "session-<hook start>")),
                    sessionId, env0, hookName)

HookNames == { "pre-command", "pre-bash", "custom", "no-such-hook" }

ManagerOptions ==
    { Null }
    \cup [ command : { << >>, <<"r","m"," ","-","r","f">>, <<"i","n","s","t","a","l","l">> },
           validateSafety : BOOLEAN, prepareResources : { FALSE },
           checkDependencies : { FALSE }, suggestOptimizations : { FALSE },
           predictPerformance : BOOLEAN ]

\* the environment of a managed call: everything works or nothing does
ManagerEnvs == { env \in CommandEnvs : env.which = env.files /\ env.files = env.healthy }

ManagerInit ==
    /\ envSession \in { Unset, "session-env" }
    /\ issued = {}
    /\ hooks = BuiltinHooks
    /\ mSessionId = SessionFromEnv(envSession, "session-<manager start>")
    /\ mCall = Undefined
    /\ mOutcome = Undefined
    /\ BatchIdle
    /\ TaskIdle
    /\ CommandIdle
    /\ NotImported
    /\ LifecycleIdle

\* hookManager.registerHook(name, HookClass)
RegisterHook ==
    /\ \E name \in { "custom" }, HookClass \in CustomClasses :
          hooks' = [ n \in DOMAIN hooks \cup { name } |->
                       IF n = name THEN HookClass ELSE hooks[n] ]
    /\ UNCHANGED << mSessionId, mCall, mOutcome, batchVars, processVars, commandVars, taskVars,
                   resolverVars, lifecycleVars >>

\* hookManager.executeHook(hookName, options); a run of the program uses one
\* of the manager's three ways to execute hooks
ExecuteHook ==
    /\ BatchIdle
    /\ \E hookName \in HookNames, options \in ManagerOptions, env \in ManagerEnvs :
          \E outcome \in { ExecuteHookOutcome(hooks, mSessionId, envSession, hookName,
                                               options, env) } :
              /\ mCall' = [ hookName |-> hookName, options |-> options,
                             HookClass |-> IF hookName \in DOMAIN hooks THEN hooks[hookName]
                                           ELSE "none" ]
              /\ mOutcome' = [ f \in DOMAIN outcome \ { "issued", "envSession" } |-> outcome[f] ]
              /\ issued' = outcome.issued
              /\ envSession' = outcome.envSession
    /\ UNCHANGED << hooks, mSessionId, batchVars, commandVars, taskVars, resolverVars, lifecycleVars >>

MaxConfigs == 3

\* the hook configurations a caller batches
ConfigPool ==
    { [ hook |-> "pre-command",
        options |-> [ command |-> <<"i","n","s","t","a","l","l">>, validateSafety |-> TRUE,
                      prepareResources |-> FALSE, checkDependencies |-> FALSE,
                      suggestOptimizations |-> FALSE, predictPerformance |-> FALSE ] ],
      [ hook |-> "pre-bash",
        options |-> [ command |-> <<"r","m"," ","-","r","f">>, validateSafety |-> TRUE,
                      prepareResources |-> FALSE, checkDependencies |-> FALSE,
                      suggestOptimizations |-> FALSE, predictPerformance |-> FALSE ] ],
      [ hook |-> "custom", options |-> Null ],
      [ hook |-> "no-such-hook", options |-> Null ] }

\* hookConfigs.map(config => this.executeHook(config.hook, config.options)):
\* the calls start one after the other, each seeing the
\* CLAUDE_FLOW_SESSION the calls before it have set; first is the outcome
\* of the first call, rest the configurations after it
RECURSIVE ParallelOutcomes(_, _, _, _, _)
ParallelOutcomes(first, registry, sessionId, rest, env) ==
    << first >>
    \o (IF rest = << >> THEN << >>
        ELSE ParallelOutcomes(ExecuteHookOutcome(registry, sessionId, first.envSession,
                                                 Head(rest).hook, Head(rest).options, env),
                              registry, sessionId, Tail(rest), env))

\* result.status === 'fulfilled' && result.value.success
CountsAsSuccessful(outcome) ==
    /\ outcome.settled = "resolved"
    /\ "success" \in DOMAIN outcome.value
    /\ outcome.value.success = TRUE

\* result.reason || result.value?.error
SummaryError(outcome) ==
    IF outcome.settled = "rejected" THEN outcome.reason
    ELSE IF "error" \in DOMAIN outcome.value THEN outcome.value.error
    ELSE Undefined

\* the summary executeParallelHooks builds from the settled promises
Summarize(configs, outcomes) ==
    [ total |-> Len(outcomes),
      successful |-> Cardinality({ i \in DOMAIN outcomes : CountsAsSuccessful(outcomes[i]) }),
      failed |-> Cardinality({ i \in DOMAIN outcomes : ~CountsAsSuccessful(outcomes[i]) }),
      results |-> [ i \in DOMAIN outcomes |->
                      IF CountsAsSuccessful(outcomes[i])
                      THEN [ hook |-> configs[i].hook, success |-> TRUE,
                             data |-> outcomes[i].value ]
                      ELSE [ hook |-> configs[i].hook, success |-> FALSE,
                             error |-> SummaryError(outcomes[i]) ] ] ]

\* hookManager.executeParallelHooks(hookConfigs)
ExecuteParallelHooks ==
    /\ mCall = Undefined
    /\ BatchIdle
    /\ \E configs \in SeqsUpTo(ConfigPool, MaxConfigs), env \in ManagerEnvs :
          \E outcomes \in
                { IF configs = << >> THEN << >>
                  ELSE ParallelOutcomes(ExecuteHookOutcome(hooks, mSessionId, envSession,
                                                           Head(configs).hook,
                                                           Head(configs).options, env),
                                        hooks, mSessionId, Tail(configs), env) } :
              /\ pConfigs' = [ hookConfigs |-> configs ]
              /\ pSummary' = Summarize(configs, outcomes)
              /\ issued' = UNION { outcomes[i].issued : i \in DOMAIN outcomes }
              /\ envSession' = IF outcomes = << >> THEN envSession
                               ELSE outcomes[Len(outcomes)].envSession
    /\ UNCHANGED << hooks, mSessionId, mCall, mOutcome, sSequence, sResults, commandVars,
                   taskVars, resolverVars, lifecycleVars >>

MaxSteps == 3

\* the steps a caller sequences; passDataTo is 0 where the step has none
StepPool ==
    { [ hook |-> "pre-command",
        options |-> [ command |-> <<"i","n","s","t","a","l","l">>, validateSafety |-> TRUE,
                      prepareResources |-> FALSE, checkDependencies |-> FALSE,
                      suggestOptimizations |-> FALSE, predictPerformance |-> FALSE ],
        stopOnError |-> TRUE, passDataTo |-> 0 ],
      [ hook |-> "pre-bash",
        options |-> [ command |-> <<"r","m"," ","-","r","f">>, validateSafety |-> TRUE,
                      prepareResources |-> FALSE, checkDependencies |-> FALSE,
                      suggestOptimizations |-> FALSE, predictPerformance |-> FALSE ],
        stopOnError |-> FALSE, passDataTo |-> 2 ],
      [ hook |-> "custom", options |-> [ analyzePerformance |-> TRUE ],
        stopOnError |-> TRUE, passDataTo |-> 0 ],
      [ hook |-> "no-such-hook", options |-> [ analyzePerformance |-> TRUE ],
        stopOnError |-> FALSE, passDataTo |-> 0 ] }

\* sequence[step.passDataTo].options = { ...options, previousResult: result }
PassData(sequence, step, result) ==
    IF step.passDataTo # 0 /\ step.passDataTo + 1 \in DOMAIN sequence
    THEN [ sequence EXCEPT ![step.passDataTo + 1].options =
                               [ previousResult |-> result ] @@ @ ]
    ELSE sequence

\* the loop of executeSequence from step i on, outcome being how the
\* executeHook call of step i settled; results holds the entries pushed so
\* far and commands the commands issued so far
RECURSIVE SequenceFrom(_, _, _, _, _, _, _, _)
SequenceFrom(outcome, i, sequence, results, commands, registry, sessionId, env) ==
    IF outcome.settled = "rejected"
    THEN [ settled |-> "rejected", reason |-> outcome.reason,
           issued |-> commands \cup outcome.issued, envSession |-> outcome.envSession ]
    ELSE IF \/ sequence[i].stopOnError /\ ~CountsAsSuccessful(outcome)
            \/ i = Len(sequence)
    THEN [ settled |-> "resolved",
           value |-> Append(results, outcome.value @@ [ hook |-> sequence[i].hook ]),
           issued |-> commands \cup outcome.issued, envSession |-> outcome.envSession ]
    ELSE SequenceFrom(
            ExecuteHookOutcome(registry, sessionId, outcome.envSession,
                               PassData(sequence, sequence[i], outcome.value)[i + 1].hook,
                               PassData(sequence, sequence[i], outcome.value)[i + 1].options,
                               env),
            i + 1, PassData(sequence, sequence[i], outcome.value),
            Append(results, outcome.value @@ [ hook |-> sequence[i].hook ]),
            commands \cup outcome.issued, registry, sessionId, env)

\* hookManager.executeSequence(sequence)
ExecuteSequence ==
    /\ mCall = Undefined
    /\ BatchIdle
    /\ \E sequence \in SeqsUpTo(StepPool, MaxSteps), env \in ManagerEnvs :
          \E run \in
                { IF sequence = << >>
                  THEN [ settled |-> "resolved", value |-> << >>, issued |-> {},
                         envSession |-> envSession ]
                  ELSE SequenceFrom(ExecuteHookOutcome(hooks, mSessionId, envSession,
                                                       sequence[1].hook, sequence[1].options,
                                                       env),
                                    1, sequence, << >>, {}, hooks, mSessionId, env) } :
              /\ sSequence' = [ steps |-> sequence ]
              /\ sResults' = [ f \in DOMAIN run \ { "issued", "envSession" } |-> run[f] ]
              /\ issued' = run.issued
              /\ envSession' = run.envSession
    /\ UNCHANGED << hooks, mSessionId, mCall, mOutcome, pConfigs, pSummary, commandVars,
                   taskVars, resolverVars, lifecycleVars >>

ManagerNext == RegisterHook \/ ExecuteHook \/ ExecuteParallelHooks \/ ExecuteSequence

SpecManager == ManagerInit /\ [][ManagerNext]_vars

\* C2: executeHook always resolves, never rejects, to a result object; when
\* the constructor throws, execute rejects or execute resolves to no value,
\* the result is { success: false, error: <message> }.
C2_ExecuteHookAlwaysResolves ==
    mCall # Undefined =>
        /\ mOutcome.settled = "resolved"
        /\ mCall.HookClass \in CustomClasses \ { "ReturningSuccess" } =>
              /\ mOutcome.value.success = FALSE
              /\ "error" \in DOMAIN mOutcome.value

(***************************************************************************)
(* src/hooks/optimized/pre-command.js: PreTaskHook                         *)
(***************************************************************************)
\* estimateTaskComplexity.complexityIndicators, in declaration order
ComplexityLevels == << "simple", "medium", "complex", "critical" >>

complexityIndicators ==
    [ simple |-> << <<"f","i","x">>, <<"u","p","d","a","t","e">>, <<"c","h","a","n","g","e">>, <<"m","o","d","i","f","y">>, <<"a","d","d">> >>,
      medium |->
        << <<"i","m","p","l","e","m","e","n","t">>, <<"c","r","e","a","t","e">>, <<"b","u","i","l","d">>, <<"d","e","v","e","l","o","p">>, <<"i","n","t","e","g","r","a","t","e">> >>,
      complex |->
        << <<"r","e","f","a","c","t","o","r">>, <<"o","p","t","i","m","i","z","e">>, <<"a","r","c","h","i","t","e","c","t">>, <<"r","e","d","e","s","i","g","n">>, <<"m","i","g","r","a","t","e">> >>,
      critical |->
        << <<"s","e","c","u","r","i","t","y">>, <<"p","e","r","f","o","r","m","a","n","c","e">>, <<"s","c","a","l","e">>, <<"d","i","s","t","r","i","b","u","t","e","d">>, <<"r","e","a","l","-","t","i","m","e">> >> ]

components ==
    << <<"f","r","o","n","t","e","n","d">>, <<"b","a","c","k","e","n","d">>, <<"d","a","t","a","b","a","s","e">>, <<"a","p","i">>, <<"a","u","t","h">>, <<"t","e","s","t","i","n","g">> >>

Max(a, b) == IF a >= b THEN a ELSE b

\* an estimateTaskComplexity whose multi-component rule needs four components
estimateTaskComplexityFour(description) ==
    LET lower == ToLower(description)
        found(l) == SelectSeq(complexityIndicators[l], LAMBDA k : Includes(lower, k))
        hit == { i \in DOMAIN ComplexityLevels : found(ComplexityLevels[i]) # << >> }
        last == IF hit = {} THEN 1 ELSE CHOOSE i \in hit : \A j \in hit : j <= i
        minutes == << 15, 45, 120, 240 >>
        detectedComponents == SelectSeq(components, LAMBDA c : Includes(lower, c))
        many == Len(detectedComponents) > 3
    IN  [ level |-> IF many THEN "complex" ELSE ComplexityLevels[last],
          estimatedMinutes |-> IF many THEN Max(minutes[last], 90) ELSE minutes[last],
          patterns |-> found("simple") \o found("medium") \o found("complex")
                       \o found("critical"),
          components |-> detectedComponents,
          requiresCoordination |-> Len(detectedComponents) > 1 ]

estimateTaskComplexity(description) ==
    LET lower == ToLower(description)
        found(l) == SelectSeq(complexityIndicators[l], LAMBDA k : Includes(lower, k))
        hit == { i \in DOMAIN ComplexityLevels : found(ComplexityLevels[i]) # << >> }
        \* the loop keeps the last level that has a keyword in the description
        last == IF hit = {} THEN 1 ELSE CHOOSE i \in hit : \A j \in hit : j <= i
        minutes == << 15, 45, 120, 240 >>
        detectedComponents == SelectSeq(components, LAMBDA c : Includes(lower, c))
        many == Len(detectedComponents) > 2
    IN  [ level |-> IF many THEN "complex" ELSE ComplexityLevels[last],
          estimatedMinutes |-> IF many THEN Max(minutes[last], 90) ELSE minutes[last],
          patterns |-> found("simple") \o found("medium") \o found("complex")
                       \o found("critical"),
          components |-> detectedComponents,
          requiresCoordination |-> Len(detectedComponents) > 1 ]

\* selectOptimalTopology.topologies, in declaration order
TopologyNames == << "mesh", "hierarchical", "ring", "star" >>

topologies ==
    [ mesh |-> [ suitable |-> << <<"c","o","l","l","a","b","o","r","a","t","i","v","e">>, <<"r","e","s","e","a","r","c","h">>, <<"e","x","p","l","o","r","a","t","i","o","n">>, <<"b","r","a","i","n","s","t","o","r","m">> >>,
                 maxAgents |-> 6, coordination |-> "distributed" ],
      hierarchical |-> [ suitable |-> << <<"c","o","m","p","l","e","x">>, <<"m","u","l","t","i","-","l","a","y","e","r">>, <<"s","t","r","u","c","t","u","r","e","d">>, <<"o","r","g","a","n","i","z","e","d">> >>,
                         maxAgents |-> 10, coordination |-> "centralized" ],
      ring |-> [ suitable |-> << <<"s","e","q","u","e","n","t","i","a","l">>, <<"p","i","p","e","l","i","n","e">>, <<"w","o","r","k","f","l","o","w">>, <<"p","r","o","c","e","s","s">> >>,
                 maxAgents |-> 8, coordination |-> "circular" ],
      star |-> [ suitable |-> << <<"c","e","n","t","r","a","l","i","z","e","d">>, <<"f","o","c","u","s","e","d">>, <<"s","i","n","g","l","e","-","g","o","a","l">>, <<"s","i","m","p","l","e">> >>,
                 maxAgents |-> 5, coordination |-> "hub-spoke" ] ]

selectOptimalTopology(description) ==
    LET lower == ToLower(description)
        score(t) == Len(SelectSeq(topologies[t].suitable, LAMBDA k : Includes(lower, k)))
        maxScore == CHOOSE m \in 0..4 :
                        /\ \A i \in DOMAIN TopologyNames : score(TopologyNames[i]) <= m
                        /\ m = 0 \/ \E i \in DOMAIN TopologyNames : score(TopologyNames[i]) = m
        \* the first topology that reaches the highest score, mesh if none scores
        best == IF maxScore = 0 THEN 1
                ELSE CHOOSE i \in DOMAIN TopologyNames :
                        /\ score(TopologyNames[i]) = maxScore
                        /\ \A j \in 1..(i - 1) : score(TopologyNames[j]) < maxScore
        selectedTopology ==
            IF Includes(lower, <<"a","p","i">>) \/ Includes(lower, <<"s","e","r","v","i","c","e">>)
            THEN "hierarchical"
            ELSE IF Includes(lower, <<"t","e","s","t">>) \/ Includes(lower, <<"v","a","l","i","d","a","t","e">>)
            THEN "ring"
            ELSE TopologyNames[best]
    IN  [ type |-> selectedTopology,
          config |-> topologies[selectedTopology],
          confidence |-> IF maxScore > 0 THEN "high" ELSE "medium" ]

\* autoSpawnAgents.agentConfigs: the length of each level's agent list
agentConfigs == [ simple |-> 2, medium |-> 4, complex |-> 7, critical |-> 10 ]

\* an autoSpawnAgents that falls back to the medium list
AgentCountDefaultMedium(estimate) ==
    IF "level" \in DOMAIN estimate /\ estimate.level \in DOMAIN agentConfigs
    THEN agentConfigs[estimate.level] ELSE agentConfigs.medium

\* (agentConfigs[complexity.level] || agentConfigs.simple).length
AgentCount(estimate) ==
    IF "level" \in DOMAIN estimate /\ estimate.level \in DOMAIN agentConfigs
    THEN agentConfigs[estimate.level] ELSE agentConfigs.simple

\* description.split(' ').filter(word => word.length > 3).slice(0, 5)
RECURSIVE SplitBlank(_)
SplitBlank(s) ==
    LET cuts == { i \in DOMAIN s : s[i] = " " }
        cut == CHOOSE i \in cuts : \A j \in cuts : i <= j
    IN  IF cuts = {} THEN << s >>
        ELSE << Sub(s, 1, cut - 1) >> \o SplitBlank(Sub(s, cut + 1, Len(s)))

searchPatterns(description) ==
    LET long == SelectSeq(SplitBlank(description), LAMBDA word : Len(word) > 3)
    IN  Sub(long, 1, 5)

(***************************************************************************)
(* The two analyses of a task description, called on their own             *)
(***************************************************************************)
MaxDescriptionWords == 4

DescriptionWords ==
    { <<"F","r","o","n","t","e","n","d">>,
      <<"A","P","I">>,
      <<"d","a","t","a","b","a","s","e">>,
      <<"f","i","x">>,
      <<"s","e","c","u","r","i","t","y">>,
      <<"p","i","p","e","l","i","n","e">> }

Descriptions == { JoinWords(ws) : ws \in SeqsUpTo(DescriptionWords, MaxDescriptionWords) }

\* a description is at hand, and nothing has analysed it yet
EstimateInit ==
    /\ taskDescription \in Descriptions
    /\ taskComplexity = Undefined
    /\ taskTopology = Undefined
    /\ envSession = Unset
    /\ issued = {}
    /\ CommandIdle
    /\ ManagerIdle
    /\ ExecuteIdle
    /\ NotImported
    /\ LifecycleIdle

\* hook.estimateTaskComplexity(description) and
\* hook.selectOptimalTopology(description) on one PreTaskHook
AnalyzeTask ==
    /\ taskComplexity = Undefined
    /\ taskComplexity' = estimateTaskComplexity(taskDescription)
    /\ taskTopology' = selectOptimalTopology(taskDescription)
    /\ UNCHANGED << taskDescription, tOptions, tpc, tPending, tGithub, tAgentsSpawned,
                    tSwarmInit, tHung, tAllFailed, tResult >>
    /\ UNCHANGED << processVars, commandVars, managerVars, resolverVars, lifecycleVars >>

EstimateNext == AnalyzeTask

SpecEstimate == EstimateInit /\ [][EstimateNext]_vars

\* the component keywords a description mentions, whatever its case
MentionedComponents(description) ==
    { i \in DOMAIN components : Includes(ToLower(description), components[i]) }

LevelRank(level) == CHOOSE i \in DOMAIN ComplexityLevels : ComplexityLevels[i] = level

\* C5: a description that mentions more than 2 of the component keywords
\* gets a level of at least complex, whatever complexity keywords it has
C5_MultiComponentFloor ==
    (/\ taskComplexity # Undefined
     /\ Cardinality(MentionedComponents(taskDescription)) > 2)
        => LevelRank(taskComplexity.level) >= LevelRank("complex")

\* three components next to a keyword of the lowest tier
C5_Witness ==
    /\ taskComplexity # Undefined
    /\ taskDescription = <<"f","i","x"," ","A","P","I"," ","d","a","t","a","b","a","s","e">> \o <<" ","F","r","o","n","t","e","n","d">>
    /\ taskComplexity.patterns = << <<"f","i","x">> >>
    /\ Len(taskComplexity.components) = 3
    /\ taskComplexity.level = "complex"

(***************************************************************************)
(* PreTaskHook.execute, one await at a time                                *)
(***************************************************************************)
\* a JavaScript value that is neither undefined nor null (no operation of
\* execute resolves to false, 0 or '')
Truthy(value) == value # Undefined /\ value # Null

\* what loadRelevantMemory resolves to: executeCommand's result never has an
\* entries field, so no search adds an entry
LoadedMemory == [ entries |-> << >>, totalFound |-> 0 ]

\* the values Promise.all(operations) resolves to, in push order
Operations(options, github) ==
    When(options.estimateComplexity, estimateTaskComplexity(options.description))
        \o When(options.loadMemory, LoadedMemory)
        \o When(options.optimizeTopology, selectOptimalTopology(options.description))
        \o When(options.useGithubIntegration, github)

\* the session id the PreTaskHook constructor makes up
TaskSessionId == "session-<hook start>-<random>"

\* initializeSwarmCoordination builds its command from topology.type and
\* agentCount || topology.config.maxAgents: it throws on a topology that is
\* undefined or null, and on one without config when agentCount is 0
SwarmCommandThrows(topology, agentCount) ==
    \/ ~Truthy(topology)
    \/ agentCount = 0 /\ "config" \notin DOMAIN topology

SwarmCommand(topology, agentCount) ==
    [ cmd |-> "swarm init",
      topology |-> IF "type" \in DOMAIN topology THEN << topology.type >> ELSE << >>,
      maxAgents |-> IF agentCount # 0 THEN agentCount ELSE topology.config.maxAgents ]

\* the object execute returns after its last await; a field whose value is
\* undefined is left out
TaskResult(options, github, agentsSpawned, swarmInit) ==
    LET operations == Operations(options, github)
        estimate == Positional(operations, 1)
        memory == Positional(operations, 2)
        topology == Positional(operations, 3)
        githubContext == Positional(operations, 4)
    IN  [ continue |-> TRUE,
          sessionId |-> TaskSessionId,
          agentsSpawned |-> agentsSpawned,
          memoryLoaded |-> Truthy(memory),
          githubEnabled |-> Truthy(githubContext),
          parallelMode |-> options.parallelExecution,
          swarmInitialized |-> swarmInit.success ]
        @@ (IF "type" \in DOMAIN topology THEN [ topology |-> topology.type ] ELSE << >>)
        @@ (IF "level" \in DOMAIN estimate
            THEN [ complexity |-> estimate.level,
                   estimatedMinutes |-> estimate.estimatedMinutes ]
            ELSE << >>)

TaskFailure(message) == [ continue |-> FALSE, error |-> message ]

MaxTaskWords == 1

TaskWords ==
    { <<"A","P","I">>, <<"p","i","p","e","l","i","n","e">>, <<"f","i","x">>,
      <<"s","e","c","u","r","i","t","y">> }

TaskDescriptions == { JoinWords(ws) : ws \in SeqsUpTo(TaskWords, MaxTaskWords) }

TaskOptions ==
    [ description : TaskDescriptions, autoSpawnAgents : BOOLEAN, loadMemory : BOOLEAN,
      optimizeTopology : BOOLEAN, estimateComplexity : BOOLEAN,
      useGithubIntegration : BOOLEAN, parallelExecution : BOOLEAN ]

\* a child process closes with one of these exit codes
ExitCodes == { 0, 1 }

NoChild == [ searches |-> 0, git |-> 0, agents |-> 0 ]

TaskInit ==
    /\ ProcessInit
    /\ CommandIdle
    /\ ManagerIdle
    /\ TaskIdle
    /\ NotImported
    /\ LifecycleIdle

taskFrame == << estimateVars, envSession, commandVars, managerVars, resolverVars, lifecycleVars >>

\* new PreTaskHook().execute(options) up to its first await on a child
\* process: fs.mkdir, then the operations are started
PreTaskStart ==
    \E options \in TaskOptions, mkdir \in BOOLEAN :
        /\ tpc = "idle"
        /\ tOptions' = options
        /\ tGithub' = Undefined
        /\ tAgentsSpawned' = 0
        /\ tSwarmInit' = Undefined
        /\ tHung' = "none"
        /\ tAllFailed' = TRUE
        /\ issued' = {}
        /\ IF mkdir
           THEN /\ tpc' = "operations"
                /\ tPending' =
                       [ searches |-> IF options.loadMemory
                                      THEN Len(searchPatterns(options.description)) ELSE 0,
                         git |-> IF options.useGithubIntegration THEN 1 ELSE 0,
                         agents |-> 0 ]
                /\ tResult' = Undefined
           ELSE /\ tpc' = "returned"
                /\ tPending' = NoChild
                /\ tResult' = TaskFailure("mkdir failed")
        /\ UNCHANGED taskFrame

\* the kind of child process execute waits for
ChildKinds ==
    { "memory search", "git", "agent spawn", "swarm init", "memory store", "neural train" }

InFlight(kind) ==
    CASE kind = "memory search" -> tpc = "operations" /\ tPending.searches > 0
      [] kind = "git" -> tpc = "operations" /\ tPending.git > 0
      [] kind = "agent spawn" ->
            tpc = "agent spawn" /\ tPending.agents > (IF tHung = kind THEN 1 ELSE 0)
      [] OTHER -> tpc = kind

\* executeCommand resolves when, and only when, its child emits 'close'
Closes(kind) == InFlight(kind) /\ (tHung = kind => kind = "agent spawn")

\* after agentsSpawned is known: initializeSwarmCoordination starts its
\* child, or throws into the catch of execute
StartSwarm(agentCount) ==
    LET topology == Positional(Operations(tOptions, tGithub), 3)
    IN  /\ tAgentsSpawned' = agentCount
        /\ IF SwarmCommandThrows(topology, agentCount)
           THEN /\ tpc' = "returned"
                /\ tResult' = TaskFailure("TypeError: cannot read properties")
                /\ issued' = issued
           ELSE /\ tpc' = "swarm init"
                /\ tResult' = tResult
                /\ issued' = issued \cup { SwarmCommand(topology, agentCount) }

\* Promise.all(operations) resolves; autoSpawnAgents starts its children
OperationsResolve ==
    /\ tpc = "operations"
    /\ tPending.searches = 0 /\ tPending.git = 0
    /\ LET estimate == Positional(Operations(tOptions, tGithub), 1)
       IN  IF tOptions.autoSpawnAgents /\ Truthy(estimate)
           THEN /\ tpc' = "agent spawn"
                /\ tPending' = [ tPending EXCEPT !.agents = AgentCount(estimate) ]
                /\ issued' = issued \cup { [ cmd |-> "agent spawn", agent |-> i ] :
                                              i \in 1..AgentCount(estimate) }
                /\ UNCHANGED << tAgentsSpawned, tResult >>
           ELSE StartSwarm(0) /\ UNCHANGED tPending
    /\ UNCHANGED << tOptions, tGithub, tSwarmInit, tHung, tAllFailed >>
    /\ UNCHANGED taskFrame

\* loadRelevantMemory: one search child closes; the next pattern, if any, is
\* searched next
MemorySearchCloses ==
    \E code \in ExitCodes :
        /\ Closes("memory search")
        /\ tPending' = [ tPending EXCEPT !.searches = @ - 1 ]
        /\ tAllFailed' = (tAllFailed /\ code # 0)
        /\ issued' = issued \cup { [ cmd |-> "memory search", left |-> tPending.searches ] }
        /\ UNCHANGED << tOptions, tpc, tGithub, tAgentsSpawned, tSwarmInit, tHung, tResult >>
        /\ UNCHANGED taskFrame

\* initializeGithubContext: git status, git remote get-url origin and, for a
\* github.com remote, git branch --show-current close one after the other
GitCloses ==
    \E code \in ExitCodes, githubRemote \in BOOLEAN :
        /\ Closes("git")
        /\ CASE tPending.git = 1 ->
                    /\ tPending' = [ tPending EXCEPT !.git = 2 ]
                    /\ tGithub' = tGithub
             [] tPending.git = 2 /\ code = 0 /\ githubRemote ->
                    /\ tPending' = [ tPending EXCEPT !.git = 3 ]
                    /\ tGithub' = tGithub
             [] tPending.git = 2 /\ ~(code = 0 /\ githubRemote) ->
                    /\ tPending' = [ tPending EXCEPT !.git = 0 ]
                    /\ tGithub' = Null
             [] OTHER ->
                    /\ tPending' = [ tPending EXCEPT !.git = 0 ]
                    /\ tGithub' = [ enabled |-> TRUE,
                                    branch |-> IF code = 0 THEN "<current>" ELSE "main" ]
        /\ UNCHANGED << tOptions, tpc, tAgentsSpawned, tSwarmInit, tHung, tAllFailed,
                        tResult, issued >>
        /\ UNCHANGED taskFrame

\* autoSpawnAgents: one spawn child closes; after the last one
\* Promise.all(spawnPromises) resolves and execute goes on
AgentSpawnCloses ==
    \E code \in ExitCodes :
        /\ Closes("agent spawn")
        /\ tPending' = [ tPending EXCEPT !.agents = @ - 1 ]
        /\ tAllFailed' = (tAllFailed /\ code # 0)
        /\ IF tPending.agents = 1
           THEN StartSwarm(AgentCount(Positional(Operations(tOptions, tGithub), 1)))
           ELSE UNCHANGED << tpc, tAgentsSpawned, tResult, issued >>
        /\ UNCHANGED << tOptions, tGithub, tSwarmInit, tHung >>
        /\ UNCHANGED taskFrame

\* initializeSwarmCoordination resolves; storeTaskContext starts its child
SwarmInitCloses ==
    \E code \in ExitCodes :
        /\ Closes("swarm init")
        /\ tSwarmInit' = [ success |-> code = 0 ]
        /\ tAllFailed' = (tAllFailed /\ code # 0)
        /\ tpc' = "memory store"
        /\ issued' = issued \cup { [ cmd |-> "memory store",
                                     key |-> << "task", TaskSessionId, "context" >> ] }
        /\ UNCHANGED << tOptions, tPending, tGithub, tAgentsSpawned, tHung, tResult >>
        /\ UNCHANGED taskFrame

\* storeTaskContext resolves; initializeNeuralTraining starts its child if
\* complexity has a patterns array (an empty array is truthy), else execute
\* returns
MemoryStoreCloses ==
    \E code \in ExitCodes :
        /\ Closes("memory store")
        /\ tAllFailed' = (tAllFailed /\ code # 0)
        /\ LET estimate == Positional(Operations(tOptions, tGithub), 1)
           IN  IF Truthy(estimate) /\ "patterns" \in DOMAIN estimate
               THEN /\ tpc' = "neural train"
                    /\ issued' = issued \cup { [ cmd |-> "neural train",
                                                 patterns |-> estimate.patterns ] }
                    /\ tResult' = tResult
               ELSE /\ tpc' = "returned"
                    /\ issued' = issued
                    /\ tResult' = TaskResult(tOptions, tGithub, tAgentsSpawned, tSwarmInit)
        /\ UNCHANGED << tOptions, tPending, tGithub, tAgentsSpawned, tSwarmInit, tHung >>
        /\ UNCHANGED taskFrame

\* initializeNeuralTraining resolves; execute returns
NeuralTrainCloses ==
    \E code \in ExitCodes :
        /\ Closes("neural train")
        /\ tAllFailed' = (tAllFailed /\ code # 0)
        /\ tpc' = "returned"
        /\ tResult' = TaskResult(tOptions, tGithub, tAgentsSpawned, tSwarmInit)
        /\ UNCHANGED << tOptions, tPending, tGithub, tAgentsSpawned, tSwarmInit, tHung,
                        issued >>
        /\ UNCHANGED taskFrame

\* a child process that execute waits for never exits
ChildNeverExits ==
    \E kind \in ChildKinds :
        /\ tHung = "none"
        /\ InFlight(kind)
        /\ tHung' = kind
        /\ UNCHANGED << tOptions, tpc, tPending, tGithub, tAgentsSpawned, tSwarmInit,
                        tAllFailed, tResult, issued >>
        /\ UNCHANGED taskFrame

TaskNext ==
    \/ PreTaskStart
    \/ OperationsResolve
    \/ MemorySearchCloses
    \/ GitCloses
    \/ AgentSpawnCloses
    \/ SwarmInitCloses
    \/ MemoryStoreCloses
    \/ NeuralTrainCloses
    \/ ChildNeverExits

SpecTask == TaskInit /\ [][TaskNext]_vars

\* every child process that can exit does exit, and execute takes each step
\* it can take
FairSpecTask == SpecTask /\ WF_vars(TaskNext)

\* the run that has returned had every claude-flow command exit non-zero,
\* while fs.mkdir succeeded
StoreFailedLocalOk ==
    /\ tpc = "returned"
    /\ tAllFailed
    /\ tResult # TaskFailure("mkdir failed")

\* C3 (PreTaskHook part): when every claude-flow command of a run exits
\* non-zero and fs.mkdir succeeds, execute called with the complexity and
\* topology analyses enabled returns continue=true with the level and the
\* topology type computed from the description
C3_StoreFailureKeepsContinue ==
    (StoreFailedLocalOk /\ tOptions.estimateComplexity /\ tOptions.optimizeTopology)
        => /\ tResult.continue
           /\ tResult.complexity = estimateTaskComplexity(tOptions.description).level
           /\ tResult.topology = selectOptimalTopology(tOptions.description).type

\* the same for the calls that leave loadMemory at its default
StoreFailureKeepsContinueWithMemory ==
    (/\ StoreFailedLocalOk
     /\ tOptions.estimateComplexity /\ tOptions.optimizeTopology /\ tOptions.loadMemory)
        => /\ tResult.continue
           /\ tResult.complexity = estimateTaskComplexity(tOptions.description).level
           /\ tResult.topology = selectOptimalTopology(tOptions.description).type

\* C4: every execute that was started eventually returns, also when a child
\* process never exits
C4_ExecuteEventuallyReturns == (tpc # "idle") ~> (tpc = "returned")

(***************************************************************************)
(* The empty prompt                                                        *)
(***************************************************************************)
\* the resolver call an analysis of the empty prompt makes: no pattern, the
\* lowest level, no role
EmptyPromptCall ==
    /\ rpc = "returned"
    /\ patterns = << >>
    /\ \A c \in Complexities : complexity <= c
    /\ agent_roles = << >>

\* C11: analysing the empty prompt yields no matched pattern, the lowest
\* complexity level and a required tool set that is exactly the always-on
\* set.
C11_EmptyPromptAlwaysOnOnly ==
    EmptyPromptCall =>
        /\ estimateTaskComplexity(<< >>).patterns = << >>
        /\ estimateTaskComplexity(<< >>).level = ComplexityLevels[1]
        /\ Range(required) = AlwaysOnTools

(***************************************************************************)
(* ConversationContext: the merge of raw store entries (design section     *)
(* 4.5; the engine's Python source is not part of the repository)          *)
(***************************************************************************)
\* the payload of an entry that does not parse
Unparseable == [ unparseable |-> TRUE ]

Parses(entry) == entry.value # Unparseable

MaxRecentTasks == 10

MaxTimestamp == 3

\* the entries of es in the order "most recent first"; entries with the same
\* timestamp keep their order
RECURSIVE NewestFirstFrom(_, _)
NewestFirstFrom(es, t) ==
    IF t < 0 THEN << >>
    ELSE SelectSeq(es, LAMBDA entry : entry.timestamp = t) \o NewestFirstFrom(es, t - 1)

NewestFirst(es) == NewestFirstFrom(es, MaxTimestamp)

\* the values the entries of es carry under one of the two field names
RECURSIVE FieldValues(_, _, _)
FieldValues(es, short, long) ==
    IF es = << >> THEN {}
    ELSE LET value == Head(es).value
         IN  (IF short \in DOMAIN value THEN value[short] ELSE {})
             \cup (IF long \in DOMAIN value THEN value[long] ELSE {})
             \cup FieldValues(Tail(es), short, long)

\* the task texts of the entries of es, in their order
RECURSIVE TaskTexts(_)
TaskTexts(es) ==
    IF es = << >> THEN << >>
    ELSE LET value == Head(es).value
         IN  (IF "task" \in DOMAIN value THEN << value.task >>
              ELSE IF "description" \in DOMAIN value THEN << value.description >>
              ELSE << >>)
             \o TaskTexts(Tail(es))

\* a merge that counts the entries it was given, skipped ones included
mergeCountingAll(entries, sessionId) ==
    LET folded == SelectSeq(NewestFirst(entries), Parses)
    IN  [ recentTasks |-> Sub(TaskTexts(folded), 1, MaxRecentTasks),
          technologies |-> FieldValues(folded, "tech", "technologies"),
          patterns |-> FieldValues(folded, "pattern", "patterns"),
          activeAgents |-> FieldValues(folded, "agents", "agentRoles"),
          entryCount |-> Len(entries),
          sessionId |-> sessionId ]

\* the merge algorithm: sort, skip what does not parse, fold by field
merge(entries, sessionId) ==
    LET folded == SelectSeq(NewestFirst(entries), Parses)
    IN  [ recentTasks |-> Sub(TaskTexts(folded), 1, MaxRecentTasks),
          technologies |-> FieldValues(folded, "tech", "technologies"),
          patterns |-> FieldValues(folded, "pattern", "patterns"),
          activeAgents |-> FieldValues(folded, "agents", "agentRoles"),
          entryCount |-> Len(folded),
          sessionId |-> sessionId ]

MaxBatch == 7

\* the entries a store may hand to a rebuild
EntryPool ==
    { [ timestamp |-> 2, value |-> [ task |-> "build api" ] ],
      [ timestamp |-> 3, value |-> [ technologies |-> { "react" },
                                     patterns |-> { "api_development" } ] ],
      [ timestamp |-> 1, value |-> [ description |-> "fix login", agents |-> { "coder" } ] ],
      [ timestamp |-> 1, value |-> Unparseable ] }

Batches == SeqsUpTo(EntryPool, MaxBatch)

\* the tables are not loaded and no resolver call is made
ToolsUnused ==
    /\ ORIGINAL = << >>
    /\ ENHANCED_PATTERN_TOOLS = << >>
    /\ ENHANCED_COMPLEXITY_TOOLS = << >>
    /\ ENHANCED_AGENT_TOOLS = << >>
    /\ ToolsIdle

MergeInit ==
    /\ rawBatch \in Batches
    /\ merged = Undefined
    /\ MatchIdle
    /\ CacheIdle
    /\ ToolsUnused
    /\ HooksIdle

\* one rebuild of the context of a session from the batch
Rebuild ==
    /\ merged = Undefined
    /\ merged' = merge(rawBatch, "s1")
    /\ UNCHANGED << rawBatch, matchVars, cacheVars, tableVars, patterns, complexity,
                    agent_roles, required, rpc, prompt, hookVars >>

MergeNext == Rebuild

SpecMerge == MergeInit /\ [][MergeNext]_vars

\* C14: a rebuild completes whatever the batch holds, and entryCount is the
\* number of entries of the batch that parse: unparseable entries are
\* skipped and contribute to no field.
C14_SkipMalformed ==
    merged # Undefined =>
        /\ merged.entryCount = Cardinality({ i \in DOMAIN rawBatch : Parses(rawBatch[i]) })
        /\ merged = merge(SelectSeq(rawBatch, Parses), "s1")

\* five valid and two malformed entries give entryCount 5
C14_Witness ==
    /\ merged # Undefined
    /\ Len(rawBatch) = 7
    /\ Cardinality({ i \in DOMAIN rawBatch : ~Parses(rawBatch[i]) }) = 2
    /\ merged.entryCount = 5
    /\ Len(merged.recentTasks) = 3

(***************************************************************************)
(* ContextCache: get, save into the store, clear (design section 4.5)      *)
(***************************************************************************)
\* configuration: cache TTL in seconds
TTL == 300

Sessions == { "s1", "s2" }

MaxTicks == 3
MaxStoreEntries == 2
MaxGets == 3

\* the seconds the clock advances by between two calls
ClockSteps == { 1, 299 }

\* what the store may be given to keep, by scope
StorePool ==
    { [ scope |-> "s1", timestamp |-> 1, value |-> [ task |-> "build api" ] ],
      [ scope |-> "global", timestamp |-> 2, value |-> [ tech |-> { "react" } ] ] }

\* the store's answer for the session-scoped and the global namespaces
query(entries, sessionId) ==
    SelectSeq(entries, LAMBDA entry : entry.scope \in { sessionId, "global" })

\* a freshness test that still serves an entry built exactly TTL seconds ago
FreshInclusive(entry, t) == t - entry.builtAt <= TTL

\* FRESH: last built less than TTL seconds ago
Fresh(entry, t) == t - entry.builtAt < TTL

Gets == IF getCall = Undefined THEN 0 ELSE getCall.seq

CacheInit ==
    /\ CacheIdle
    /\ MatchIdle
    /\ MergeIdle
    /\ ToolsUnused
    /\ HooksIdle

cacheFrame ==
    << matchVars, mergeVars, tableVars, patterns, complexity, agent_roles, required, rpc,
       prompt, hookVars >>

\* time passes
Tick ==
    /\ ticks < MaxTicks
    /\ \E d \in ClockSteps : clock' = clock + d
    /\ ticks' = ticks + 1
    /\ UNCHANGED << store, storeQueries, cacheEntries, getCall, getResult >>
    /\ UNCHANGED cacheFrame

\* some process appends a record to the external store
StoreWrite ==
    /\ Len(store) < MaxStoreEntries
    /\ \E entry \in StorePool : store' = Append(store, entry)
    /\ UNCHANGED << clock, ticks, storeQueries, cacheEntries, getCall, getResult >>
    /\ UNCHANGED cacheFrame

\* ContextCache.get(sessionId, maxEntries, useCache)
Get ==
    /\ Gets < MaxGets
    /\ \E sessionId \in Sessions, useCache \in BOOLEAN :
        /\ getCall' = [ sessionId |-> sessionId, useCache |-> useCache, seq |-> Gets + 1 ]
        /\ IF /\ useCache
              /\ sessionId \in DOMAIN cacheEntries
              /\ Fresh(cacheEntries[sessionId], clock)
           THEN /\ getResult' = cacheEntries[sessionId].context
                /\ UNCHANGED << cacheEntries, storeQueries >>
           ELSE \E context \in { merge(query(store, sessionId), sessionId) } :
                /\ storeQueries' = storeQueries + 1
                /\ cacheEntries' =
                      [ s \in DOMAIN cacheEntries \cup { sessionId } |->
                          IF s = sessionId THEN [ context |-> context, builtAt |-> clock ]
                          ELSE cacheEntries[s] ]
                /\ getResult' = context
    /\ UNCHANGED << clock, ticks, store >>
    /\ UNCHANGED cacheFrame

\* ContextCache.clear()
Clear ==
    /\ cacheEntries # << >>
    /\ cacheEntries' = << >>
    /\ UNCHANGED << clock, ticks, store, storeQueries, getCall, getResult >>
    /\ UNCHANGED cacheFrame

CacheNext == Tick \/ StoreWrite \/ Get \/ Clear

SpecCache == CacheInit /\ [][CacheNext]_vars

\* C13: a get with caching enabled, for a session whose context was built
\* less than TTL seconds ago, returns the cached context unchanged and asks
\* the store nothing; for a context built TTL seconds ago or more, or never
\* built, it queries the store, rebuilds the context and records the
\* current time as build time, after which the entry is fresh.
C13_TTLBoundary ==
    [][ (getCall' # getCall /\ getCall'.useCache) =>
          LET sessionId == getCall'.sessionId
          IN  IF /\ sessionId \in DOMAIN cacheEntries
                 /\ clock - cacheEntries[sessionId].builtAt < TTL
              THEN /\ getResult' = cacheEntries[sessionId].context
                   /\ storeQueries' = storeQueries
                   /\ cacheEntries' = cacheEntries
              ELSE /\ storeQueries' = storeQueries + 1
                   /\ getResult' = merge(query(store, sessionId), sessionId)
                   /\ cacheEntries'[sessionId].context = getResult'
                   /\ cacheEntries'[sessionId].builtAt = clock
                   /\ clock' - cacheEntries'[sessionId].builtAt < TTL ]_vars

\* a get 299 seconds after the build is served from the cache although the
\* store has changed since
C13_Witness ==
    /\ getCall # Undefined
    /\ getCall.useCache
    /\ getCall.seq = 2
    /\ storeQueries = 1
    /\ getCall.sessionId \in DOMAIN cacheEntries
    /\ clock - cacheEntries[getCall.sessionId].builtAt = 299
    /\ getResult = cacheEntries[getCall.sessionId].context
    /\ getResult # merge(query(store, getCall.sessionId), getCall.sessionId)

(***************************************************************************)
(* PatternCatalog.match (design section 4.1)                               *)
(***************************************************************************)
\* configuration: max matched patterns considered
MaxPatternCount == 5

\* the catalog in declaration order; a regex is the set of its literal
\* alternatives
Catalog ==
    << 
       [ name |-> "api_development",
         keywords |-> { <<"a","p","i">>, <<"E","n","d","p","o","i","n","t">> },
         regexes |-> << { <<"r","e","s","t">>, <<"g","r","a","p","h","q","l">> } >> ],
       [ name |-> "debugging",
         keywords |-> { <<"b","u","g">>, <<"f","i","x">> },
         regexes |-> << { <<"e","r","r","o","r">>, <<"e","x","c","e","p","t","i","o","n">> } >> ],
       [ name |-> "testing_automation",
         keywords |-> { <<"t","e","s","t">> },
         regexes |-> << >> ],
       [ name |-> "code_review",
         keywords |-> { <<"r","e","v","i","e","w">> },
         regexes |-> << { <<"f","i","x">>, <<"r","e","f","a","c","t","o","r">> } >> ],
       [ name |-> "frontend_development",
         keywords |-> { <<"u","i">>, <<"a","p","i">> },
         regexes |-> << >> ],
       [ name |-> "documentation_generation",
         keywords |-> { <<"d","o","c","s">>, <<"a","p","i">> },
         regexes |-> << >> ] >>

\* count of distinct keywords whose lowercase form is a substring of the
\* lowercased prompt
keywordScore(pattern, text) ==
    Cardinality({ ToLower(k) : k \in { w \in pattern.keywords : Includes(ToLower(text), ToLower(w)) } })

\* a regex finds at least one match
Finds(regex, text) == \E alternative \in regex : Includes(ToLower(text), alternative)

\* count of regexes that find at least one match
regexScore(pattern, text) ==
    Cardinality({ i \in DOMAIN pattern.regexes : Finds(pattern.regexes[i], text) })

\* a rank that weighs a regex hit like a keyword hit
rankUnweighted(hit) == hit.keywordScore + hit.regexScore

\* the rank of a scored pattern: regex hits weigh double
rank(hit) == hit.keywordScore + 2 * hit.regexScore

\* the hits of rank r, r - 1, ..., 1 in that order; equal ranks keep the
\* order they come in
RECURSIVE RankedFrom(_, _)
RankedFrom(hits, r) ==
    IF r < 1 THEN << >>
    ELSE SelectSeq(hits, LAMBDA hit : rank(hit) = r) \o RankedFrom(hits, r - 1)

TopRank(hits) ==
    IF hits = << >> THEN 0
    ELSE CHOOSE r \in { rank(hits[i]) : i \in DOMAIN hits } :
            \A i \in DOMAIN hits : rank(hits[i]) <= r

match(promptText) ==
    LET scored == [ i \in DOMAIN Catalog |->
                      [ name |-> Catalog[i].name,
                        keywordScore |-> keywordScore(Catalog[i], promptText),
                        regexScore |-> regexScore(Catalog[i], promptText) ] ]
        qualifying == SelectSeq(scored, LAMBDA hit : hit.keywordScore + hit.regexScore > 0)
    IN  Sub(RankedFrom(qualifying, TopRank(qualifying)), 1, MaxPatternCount)

MaxMatchWords == 3

MatchWords == { <<"A","P","I">>, <<"f","i","x">>, <<"t","e","s","t">>, <<"r","e","s","t">>, <<"e","r","r","o","r">>, <<"h","i">> }

MatchPrompts == { JoinWords(ws) : ws \in SeqsUpTo(MatchWords, MaxMatchWords) }

MatchInit ==
    /\ matchPrompt \in MatchPrompts
    /\ matchResult = Undefined
    /\ MergeIdle
    /\ CacheIdle
    /\ ToolsUnused
    /\ HooksIdle

\* one call of match
Match ==
    /\ matchResult = Undefined
    /\ matchResult' = [ matchedPatterns |-> match(matchPrompt) ]
    /\ UNCHANGED << matchPrompt, mergeVars, cacheVars, tableVars, patterns, complexity,
                    agent_roles, required, rpc, prompt, hookVars >>

MatchNext == Match

SpecMatch == MatchInit /\ [][MatchNext]_vars

\* the place of a pattern in the catalog
CatalogIndex(name) == CHOOSE i \in DOMAIN Catalog : Catalog[i].name = name

\* the catalog patterns the prompt hits at all
Qualifying(text) ==
    { i \in DOMAIN Catalog : keywordScore(Catalog[i], text) + regexScore(Catalog[i], text) > 0 }

Strength(i, text) == keywordScore(Catalog[i], text) + 2 * regexScore(Catalog[i], text)

\* pattern i comes before pattern j: higher strength, or equal strength
\* and declared earlier
Before(i, j, text) ==
    \/ Strength(i, text) > Strength(j, text)
    \/ Strength(i, text) = Strength(j, text) /\ i < j

\* C15: match returns only qualifying patterns, each once, the strongest
\* ones first with ties in declaration order, as many as qualify up to the
\* maximum pattern count, and nothing for a prompt that hits no pattern.
C15_MatchRankedTruncated ==
    matchResult # Undefined =>
        LET returned == [ k \in DOMAIN matchResult.matchedPatterns |->
                            CatalogIndex(matchResult.matchedPatterns[k].name) ]
            qualify == Qualifying(matchPrompt)
        IN  /\ Range(returned) \subseteq qualify
            /\ Len(returned) = IF Cardinality(qualify) < MaxPatternCount
                               THEN Cardinality(qualify) ELSE MaxPatternCount
            /\ \A j, k \in DOMAIN returned : j < k => Before(returned[j], returned[k], matchPrompt)
            /\ \A i \in qualify \ Range(returned) :
                  \A k \in DOMAIN returned : Before(returned[k], i, matchPrompt)

\* six patterns qualify, the one with a regex hit comes first and the last
\* declared of the others is cut off
C15_Witness ==
    /\ matchResult # Undefined
    /\ Cardinality(Qualifying(matchPrompt)) = 6
    /\ Len(matchResult.matchedPatterns) = 5
    /\ matchResult.matchedPatterns[1].name = "code_review"
    /\ matchResult.matchedPatterns[2].name = "api_development"
    /\ \A k \in DOMAIN matchResult.matchedPatterns :
          matchResult.matchedPatterns[k].name # "documentation_generation"

(***************************************************************************)
(* Claims about autoSpawnAgents                                            *)
(***************************************************************************)
\* what execute hands to autoSpawnAgents as complexity
SpawnComplexity == Positional(Operations(tOptions, tGithub), 1)

\* autoSpawnAgents was called and has returned
AgentsSpawnedReturned ==
    /\ tpc \notin { "idle", "operations", "agent spawn" }
    /\ \E command \in issued : command.cmd = "agent spawn"

\* C16: the agent lists do not shrink from one level to the next, and
\* autoSpawnAgents returns the length of the list of the level it is given,
\* the length of the lowest level's list when it is given no known level.
C16_AgentCountByLevel ==
    /\ \A i, j \in DOMAIN ComplexityLevels :
          i <= j => agentConfigs[ComplexityLevels[i]] <= agentConfigs[ComplexityLevels[j]]
    /\ AgentsSpawnedReturned =>
          \/ /\ "level" \in DOMAIN SpawnComplexity
             /\ \E i \in DOMAIN ComplexityLevels :
                   /\ SpawnComplexity.level = ComplexityLevels[i]
                   /\ tAgentsSpawned = agentConfigs[ComplexityLevels[i]]
          \/ /\ "level" \notin DOMAIN SpawnComplexity
             /\ tAgentsSpawned = agentConfigs[ComplexityLevels[1]]

\* execute ran without the complexity estimate, so autoSpawnAgents was given
\* an object without a level and spawned the two agents of the simple list
C16_Witness ==
    /\ AgentsSpawnedReturned
    /\ ~tOptions.estimateComplexity
    /\ "level" \notin DOMAIN SpawnComplexity
    /\ tAgentsSpawned = 2
    /\ Cardinality({ command \in issued : command.cmd = "agent spawn" }) = 2

(***************************************************************************)
(* Claims about executeParallelHooks and executeSequence                   *)
(***************************************************************************)
\* a configuration of a registered pre-command hook that validates a
\* command without a dangerous pattern
ValidatesSafeCommand(config) ==
    /\ config.hook \in DOMAIN hooks
    /\ hooks[config.hook] = "PreCommandHook"
    /\ config.options # Null
    /\ config.options.command # << >>
    /\ config.options.validateSafety
    /\ validateCommandSafety(config.options.command, HomeDir).safe

\* C17: the summary counts every configuration once, as successful or as
\* failed, and counts as successful every hook whose execution completed
\* without error: each pre-command hook that validates a safe command.
C17_ParallelSummaryCounts ==
    pSummary # Undefined =>
        /\ pSummary.total = Len(pConfigs.hookConfigs)
        /\ pSummary.successful + pSummary.failed = pSummary.total
        /\ \A i \in DOMAIN pConfigs.hookConfigs :
              ValidatesSafeCommand(pConfigs.hookConfigs[i]) => pSummary.results[i].success

\* the entry of a hook that did not complete without error: it reports
\* an error, success = false or continue = false
EntryFailed(entry) ==
    \/ "error" \in DOMAIN entry
    \/ "success" \in DOMAIN entry /\ ~entry.success
    \/ "continue" \in DOMAIN entry /\ ~entry.continue

\* C18: the returned list has one entry per executed step, in sequence
\* order, and it is shorter than the sequence only when its last entry
\* belongs to a step with stopOnError whose hook failed.
C18_SequenceStopsOnlyOnFailure ==
    (sResults # Undefined /\ sResults.settled = "resolved") =>
        /\ Len(sResults.value) <= Len(sSequence.steps)
        /\ \A k \in DOMAIN sResults.value : sResults.value[k].hook = sSequence.steps[k].hook
        /\ Len(sResults.value) < Len(sSequence.steps) =>
              /\ sResults.value # << >>
              /\ sSequence.steps[Len(sResults.value)].stopOnError
              /\ EntryFailed(sResults.value[Len(sResults.value)])

C20_IntentAlwaysLogged ==
    (cpc = "returned" /\ cOptions.command # << >>) =>
        \E record \in issued :
            /\ record.cmd = "memory store"
            /\ record.key = << "command", SessionFromEnv(envSession, "session-<hook start>") >>

(***************************************************************************)
(* Claims about failing external commands                                  *)
(***************************************************************************)
\* C21: a hook whose external command fails issues that command again
\* before it treats the operation as failed: when the swarm init command
\* of PreTaskHook exits non-zero for the first time, execute is still at
\* swarm init afterwards and has not gone on to the next operation.
C21_FailedCommandRetried ==
    [][ (/\ tpc = "swarm init"
         /\ tSwarmInit' # tSwarmInit
         /\ ~tSwarmInit'.success) => tpc' = "swarm init" ]_vars

(***************************************************************************)
(* Claims about the error records of executeHook                           *)
(***************************************************************************)
\* the last executeHook call ran a registered hook and that run ended in an
\* execution error: the promise rejected, or the result has success = false
\* or an error other than the validation message for a missing command
EndedInExecutionError ==
    /\ mCall # Undefined
    /\ mCall.HookClass # "none"
    /\ \/ mOutcome.settled = "rejected"
       \/ /\ "success" \in DOMAIN mOutcome.value
          /\ ~mOutcome.value.success
       \/ /\ "error" \in DOMAIN mOutcome.value
          /\ mOutcome.value.error # "Command is required"

\* C22: whenever a hook run through executeHook ends in an execution error,
\* caught inside the hook's execute or escaped from it, an error record for
\* the hook has been stored under errors/hooks/<hookName>/ and executeHook
\* has returned a result.
C22_ExecutionErrorsLogged ==
    EndedInExecutionError =>
        /\ mOutcome.settled = "resolved"
        /\ HookRecord("errors", mCall.hookName) \subseteq issued

(***************************************************************************)
(* Claims about the optional checks of PreCommandHook.execute              *)
(***************************************************************************)
\* C23: each optional check feeds only its own result, whichever other
\* checks are enabled: the command is marked unsafe only by an enabled
\* validateCommandSafety, results.performance of a command that is let
\* through is what predictCommandPerformance gave (unset when disabled),
\* and with validateSafety off no command is blocked.
C23_ChecksIndependent ==
    (cpc = "returned" /\ cOptions.command # << >>) =>
        /\ cResult.safe = (cOptions.validateSafety =>
                              validateCommandSafety(cOptions.command, HomeDir).safe)
        /\ cResult.safe =>
              IF cOptions.predictPerformance
              THEN cResult.performance = predictCommandPerformance(cOptions.command)
              ELSE cResult.performance \in { Null, Undefined }
        /\ (~cOptions.validateSafety /\ ~cOptions.prepareResources) =>
              /\ cResult.continue
              /\ cResult.safe
              /\ "error" \notin DOMAIN cResult

(***************************************************************************)
(* Claims about the level estimateTaskComplexity returns                   *)
(***************************************************************************)
\* the tiers that have a keyword in the description
KeywordTiers(description) ==
    { i \in DOMAIN ComplexityLevels :
        \E k \in DOMAIN complexityIndicators[ComplexityLevels[i]] :
            Includes(ToLower(description), complexityIndicators[ComplexityLevels[i]][k]) }

\* C27: the multi-component rule only raises the level: the level returned
\* is never below the highest tier that has a keyword in the description,
\* so a critical keyword next to three components stays critical.
C27_LevelNeverLowered ==
    taskComplexity # Undefined =>
        \A i \in KeywordTiers(taskDescription) :
            LevelRank(taskComplexity.level) >= i

(***************************************************************************)
(* Claims about the size of the swarm PreTaskHook.execute starts           *)
(***************************************************************************)
\* the maxAgents of the topology selectOptimalTopology selects for the
\* description of the running task
SelectedMaxAgents == selectOptimalTopology(tOptions.description).config.maxAgents

\* C26: once execute has selected a topology for the description, the number
\* of agents it spawns and the --max-agents value of its swarm init command
\* do not exceed the maxAgents of that topology.
C26_SwarmWithinTopologyLimit ==
    (tpc # "idle" /\ tOptions.optimizeTopology) =>
        /\ tAgentsSpawned <= SelectedMaxAgents
        /\ \A command \in issued :
              command.cmd = "swarm init" => command.maxAgents <= SelectedMaxAgents

(***************************************************************************)
(* suggestCommandOptimizations called on chains of commands                *)
(***************************************************************************)
MaxChainWords == 4

ChainWords ==
    { <<"l","s",">","o">>, <<"&","&">>, <<"c","a","t">>, <<"o">>, <<">","p">> }

ChainCommands == { JoinWords(ws) : ws \in SeqsUpTo(ChainWords, MaxChainWords) }

\* a command is at hand, and nothing has analysed it yet
ChainInit ==
    /\ chainCommand \in ChainCommands
    /\ chainOptimizations = Undefined
    /\ EditIdle
    /\ FinishIdle
    /\ ProcessInit
    /\ CommandIdle
    /\ ManagerIdle
    /\ TaskIdle
    /\ NotImported

\* one call of suggestCommandOptimizations, with the prediction of the
\* command or without one
SuggestOptimizations ==
    /\ chainOptimizations = Undefined
    /\ \E performance \in { Undefined, predictCommandPerformance(chainCommand) } :
          chainOptimizations' =
              [ optimizations |-> suggestCommandOptimizations(chainCommand, performance) ]
    /\ UNCHANGED << chainCommand, editVars, finishVars, processVars, commandVars,
                    managerVars, taskVars, resolverVars >>

ChainNext == SuggestOptimizations

SpecChain == ChainInit /\ [][ChainNext]_vars

\* the commands suggested to run in parallel
SuggestedParallel ==
    UNION { Range(chainOptimizations.optimizations[i].commands) :
              i \in { j \in DOMAIN chainOptimizations.optimizations :
                        chainOptimizations.optimizations[j].type = "parallel" } }

\* the command at place j of the chain names the file an earlier command of
\* the chain redirects its output to
UsesEarlierOutput(chain, j) ==
    \E k \in 1..(j - 1) :
        /\ OutputMatch(chain[k]) # << >>
        /\ Includes(chain[j], OutputMatch(chain[k]))

\* C28: every command suggested to run in parallel stands at some place of
\* the && chain where it refers to the redirect target of no earlier command
\* of the chain.
C28_ParallelIgnoresNoOutput ==
    chainOptimizations # Undefined =>
        \A cmd \in SuggestedParallel :
            \E j \in DOMAIN SplitChain(chainCommand) :
                /\ SplitChain(chainCommand)[j] = cmd
                /\ ~UsesEarlierOutput(SplitChain(chainCommand), j)

(***************************************************************************)
(* Claims about the session id of the hooks a HookManager runs             *)
(***************************************************************************)
\* the session ids under which the hooks of the last call stored their
\* records (the hook instance's sessionId, as logCommandIntent writes it)
HookSessions == { c.key[2] : c \in { d \in issued : d.key[1] = "command" } }

\* C25: every hook run through the HookManager works under the manager's
\* session id, also on the first call of a process in which
\* CLAUDE_FLOW_SESSION is unset: the keys it stores under carry
\* HookManager.sessionId.
C25_HooksShareManagerSession ==
    mCall # Undefined => HookSessions \subseteq { mSessionId }

(***************************************************************************)
(* src/hooks/optimized/post-edit.js: PostEditHook                          *)
(***************************************************************************)
\* this.formatters: extension -> the formatter's program (its flags dropped)
formatters ==
    [ e \in { ".js", ".jsx", ".ts", ".tsx", ".json", ".css", ".scss", ".html", ".md" }
        |-> "prettier" ]
    @@ (".py" :> "black") @@ (".go" :> "gofmt") @@ (".rs" :> "rustfmt")
    @@ (".java" :> "google-java-format") @@ (".cpp" :> "clang-format")
    @@ (".c" :> "clang-format") @@ (".rb" :> "rubocop") @@ (".php" :> "php-cs-fixer")
    @@ (".swift" :> "swiftformat") @@ (".kt" :> "ktlint")

\* this.linters: extension -> the linter's program
linters ==
    [ e \in { ".js", ".jsx", ".ts", ".tsx" } |-> "eslint" ]
    @@ (".py" :> "pylint") @@ (".go" :> "golint") @@ (".rs" :> "cargo")
    @@ (".java" :> "checkstyle") @@ (".cpp" :> "cppcheck") @@ (".rb" :> "rubocop")
    @@ (".php" :> "phpcs")

\* the most lines of linter output that mention a warning or an error
MaxLintLines == 6

\* validateCode keeps this many of them: .slice(0, 5)
LintWarningLimit == 5

\* a file with a formatter and a linter, one with a formatter only, one with
\* neither; undefined when the caller names no file
EditFiles ==
    { Undefined } \cup [ name : { "a" }, ext : { ".js", ".json", ".txt" } ]

EditOptions ==
    [ file : EditFiles, autoFormat : BOOLEAN, memoryKey : { Null, [ given |-> "edit-key" ] },
      trainPatterns : BOOLEAN, validateOutput : BOOLEAN, updateGithub : BOOLEAN,
      trackPerformance : BOOLEAN ]

\* what the surroundings of one call do: whether the file exists, the exit
\* codes of the child processes, the matching lines of the linter's output,
\* the code patterns found in the file and the state of the file in git
EditEnvs ==
    [ exists : BOOLEAN, format : ExitCodes, store : ExitCodes, track : ExitCodes,
      lint : ExitCodes, lintLines : 0..MaxLintLines, patterns : 0..1,
      git : { "untracked", "clean", "dirty" } ]

\* obj.f of JavaScript: undefined when the object has no such property
Field(obj, f) == IF f \in DOMAIN obj THEN obj[f] ELSE Undefined

formatCode(ext, env) ==
    [ success |-> env.format = 0, formatter |-> formatters[ext], error |-> "stderr" ]

storeEditContext(memoryKey, env) ==
    [ success |-> env.store = 0,
      key |-> IF memoryKey # Null THEN memoryKey
              ELSE [ given |-> "edit/<session>/<file>/<now>" ] ]

trackEditPerformance(env) == [ success |-> env.track = 0, duration |-> 0 ]

\* validateCode for an extension that has a linter
validateCode(env) ==
    LET kept == IF env.lintLines < LintWarningLimit THEN env.lintLines
                ELSE LintWarningLimit
        warnings == [ i \in 1..kept |-> [ kind |-> "lint", line |-> i ] ]
    IN  [ success |-> (env.lint = 0 \/ warnings = << >>), warnings |-> warnings ]

\* the child processes of updateGithubContext
GithubRan(env) ==
    { [ cmd |-> "git ls-files" ] }
    \cup (IF env.git # "untracked" THEN { [ cmd |-> "git diff" ] } ELSE {})
    \cup (IF env.git = "dirty" THEN { [ cmd |-> "memory store diff" ] } ELSE {})

\* What one PostEditHook.execute call returns and which child processes it
\* runs on the way.
PostEditOutcome(options, env) ==
    LET results == [ file |-> options.file, formatted |-> FALSE, lintPassed |-> FALSE,
                     memorySaved |-> FALSE, patternsTrained |-> 0,
                     githubUpdated |-> FALSE, performanceTracked |-> FALSE,
                     warnings |-> << >>, formatterUsed |-> Undefined,
                     memoryKey |-> Undefined, editDuration |-> Undefined ]
        ext == options.file.ext
        formats == options.autoFormat /\ ext \in DOMAIN formatters
        stores == options.memoryKey # Null \/ options.trackPerformance
        lints == options.validateOutput /\ ext \in DOMAIN linters
        operations ==
            When(formats, formatCode(ext, env))
            \o When(stores, storeEditContext(options.memoryKey, env))
            \o When(options.trackPerformance, trackEditPerformance(env))
        formatResult == Positional(operations, 1)
        memoryResult == Positional(operations, 2)
        performanceResult == Positional(operations, 3)
        lintResult == validateCode(env)
        after ==
            [ results EXCEPT
                !.formatted = IF formatResult # Undefined THEN formatResult.success ELSE @,
                !.formatterUsed = IF formatResult # Undefined
                                  THEN Field(formatResult, "formatter") ELSE @,
                !.memorySaved = IF memoryResult # Undefined THEN memoryResult.success ELSE @,
                !.memoryKey = IF memoryResult # Undefined
                              THEN Field(memoryResult, "key") ELSE @,
                !.performanceTracked = IF performanceResult # Undefined
                                       THEN performanceResult.success ELSE @,
                !.editDuration = IF performanceResult # Undefined
                                 THEN Field(performanceResult, "duration") ELSE @,
                !.warnings =
                    When(formatResult # Undefined /\ ~formatResult.success,
                         [ kind |-> "Formatting failed" ])
                    \o (IF lints /\ ~lintResult.success THEN lintResult.warnings
                        ELSE << >>),
                !.lintPassed = IF lints THEN lintResult.success ELSE @,
                !.patternsTrained = IF options.trainPatterns THEN env.patterns ELSE @,
                !.githubUpdated = options.updateGithub /\ env.git = "dirty" ]
        ran ==
            (IF formats THEN { [ cmd |-> "format", code |-> env.format ] } ELSE {})
            \cup (IF stores THEN { [ cmd |-> "memory store", code |-> env.store ] } ELSE {})
            \cup (IF options.trackPerformance
                  THEN { [ cmd |-> "performance track", code |-> env.track ] } ELSE {})
            \cup (IF lints
                  THEN { [ cmd |-> "lint", code |-> env.lint, lines |-> env.lintLines ] }
                  ELSE {})
            \cup (IF options.trainPatterns /\ env.patterns > 0
                  THEN { [ cmd |-> "neural train" ] } ELSE {})
            \cup (IF options.updateGithub THEN GithubRan(env) ELSE {})
            \cup { [ cmd |-> "hooks notify" ] }
    IN  IF options.file = Undefined
        THEN [ result |-> [ success |-> FALSE, error |-> "File path is required" ],
               ran |-> {} ]
        ELSE IF ~env.exists
        THEN [ result |-> [ success |-> FALSE, error |-> "ENOENT" ] @@ results,
               ran |-> {} ]
        ELSE [ result |-> [ success |-> TRUE ] @@ after, ran |-> ran ]

(***************************************************************************)
(* PostEditHook run on its own (the CLI of post-edit.js)                   *)
(***************************************************************************)
EditInit ==
    /\ EditIdle
    /\ ChainIdle
    /\ FinishIdle
    /\ ProcessInit
    /\ CommandIdle
    /\ ManagerIdle
    /\ TaskIdle
    /\ NotImported

\* new PostEditHook().execute(options)
PostEditExecute ==
    /\ eResult = Undefined
    /\ \E options \in EditOptions, env \in EditEnvs :
          \E outcome \in { PostEditOutcome(options, env) } :
              /\ eOptions' = options
              /\ eRan' = outcome.ran
              /\ eResult' = outcome.result
    /\ UNCHANGED << chainVars, finishVars, processVars, commandVars, managerVars,
                    taskVars, resolverVars >>

EditNext == PostEditExecute

SpecEdit == EditInit /\ [][EditNext]_vars

\* the child process of this kind that the call ran exited with 0
RanWell(cmd) == \E c \in eRan : c.cmd = cmd /\ c.code = 0

\* execute got as far as its operations
EditRan == eResult # Undefined /\ "formatted" \in DOMAIN eResult

\* C24: formatted is true only if the formatter of the file's extension ran
\* and exited with 0 (so it is false when autoFormat is off or the extension
\* has no formatter); memorySaved is the outcome of the memory store call
\* and performanceTracked the outcome of the performance tracking call.
C24_EditFlagsOwnOutcome ==
    EditRan =>
        /\ eResult.formatted => RanWell("format")
        /\ eResult.memorySaved <=> RanWell("memory store")
        /\ eResult.performanceTracked <=> RanWell("performance track")

\* the linter warnings of the result
LintWarnings == { i \in DOMAIN eResult.warnings : eResult.warnings[i].kind = "lint" }

\* C29: lintPassed is true only if the linter of the file's extension ran
\* and exited with 0, a linter that exits with another status gives
\* lintPassed = false, and the result holds at most 5 linter warnings.
C29_LintPassedMeansExitZero ==
    EditRan =>
        /\ eResult.lintPassed => RanWell("lint")
        /\ (\E c \in eRan : c.cmd = "lint" /\ c.code # 0) => ~eResult.lintPassed
        /\ Cardinality(LintWarnings) <= LintWarningLimit

(***************************************************************************)
(* src/hooks/optimized/pre-command.js: PostTaskHook                        *)
(* src/hooks/optimized/session-end.js: SessionEndHook                      *)
(***************************************************************************)
\* an option the caller left out, or the value the caller gave it
OptionValues == { "unset", "true", "false" }

\* const { flag = default } = options
Opt(options, flag, default) ==
    IF options[flag] = "unset" THEN default ELSE options[flag] = "true"

PostTaskSteps ==
    { "analyzePerformance", "generateSummary", "persistState", "exportMetrics", "trainNeural" }

PostTaskFlags == PostTaskSteps \cup { "createGithubCommit", "cleanupSwarm" }

\* the caller passes all of the step flags or none of them
PostTaskOptions ==
    { o \in [ PostTaskFlags -> OptionValues ] :
        \/ \A f \in PostTaskSteps : o[f] = "unset"
        \/ \A f \in PostTaskSteps : o[f] # "unset" }

\* what the surroundings of one call do: whether swarm monitor prints JSON,
\* the exit codes of the child processes, whether git has uncommitted
\* changes and whether .swarm can be written
PostTaskEnvs ==
    [ swarmData : BOOLEAN, train : ExitCodes, persist : ExitCodes, dirty : BOOLEAN,
      commit : ExitCodes, destroy : ExitCodes, writable : BOOLEAN ]

\* createAutomatedCommit: the child processes it runs and what it returns
createAutomatedCommit(env) ==
    IF ~env.dirty
    THEN [ ran |-> { "git status" }, commit |-> Null ]
    ELSE IF env.commit = 0
    THEN [ ran |-> { "git status", "git add", "git commit", "git rev-parse" },
           commit |-> [ success |-> TRUE ] ]
    ELSE [ ran |-> { "git status", "git add", "git commit" }, commit |-> Null ]

\* What one PostTaskHook.execute call returns, which child processes it
\* runs and what it leaves in .swarm.
PostTaskOutcome(options, env, files) ==
    LET analyzePerformance == Opt(options, "analyzePerformance", TRUE)
        generateSummary == Opt(options, "generateSummary", TRUE)
        persistState == Opt(options, "persistState", TRUE)
        exportMetrics == Opt(options, "exportMetrics", TRUE)
        trainNeural == Opt(options, "trainNeural", TRUE)
        createGithubCommit == Opt(options, "createGithubCommit", FALSE)
        cleanupSwarm == Opt(options, "cleanupSwarm", FALSE)
        collects == exportMetrics \/ analyzePerformance
        operations ==
            When(collects, [ kind |-> "metrics" ])
            \o When(analyzePerformance,
                    IF env.swarmData THEN [ kind |-> "performance" ] ELSE Null)
            \o When(generateSummary, [ kind |-> "summary" ])
        metrics == Positional(operations, 1)
        performance == Positional(operations, 2)
        summary == Positional(operations, 3)
        trains == trainNeural /\ Truthy(metrics)
        commit == createAutomatedCommit(env)
        ran ==
            (IF collects
             THEN { "agent metrics", "performance report", "token usage", "memory usage" }
             ELSE {})
            \cup (IF analyzePerformance THEN { "swarm monitor" } ELSE {})
            \cup (IF generateSummary THEN { "memory retrieve", "memory search" } ELSE {})
            \cup (IF Truthy(performance) THEN { "bottleneck detect" } ELSE {})
            \cup (IF trains THEN { "neural train" } ELSE {})
            \cup (IF persistState THEN { "memory persist" } ELSE {})
            \cup (IF createGithubCommit THEN commit.ran ELSE {})
            \cup (IF cleanupSwarm THEN { "swarm destroy" } ELSE {})
    IN  [ result |->
            [ success |-> TRUE,
              report |->
                [ summary |-> summary,
                  neuralInsights |-> trains /\ env.train = 0,
                  statePersisted |-> persistState /\ env.persist = 0,
                  githubCommit |-> IF createGithubCommit THEN commit.commit ELSE Null ] ],
          ran |-> ran,
          files |-> IF exportMetrics /\ env.writable THEN files \cup { "metrics" }
                    ELSE files ]

SessionEndSteps ==
    { "generateSummary", "persistState", "exportMetrics", "generateReport",
      "extractLearnings" }

SessionEndFlags == SessionEndSteps \cup { "cleanupResources" }

SessionEndOptions ==
    { o \in [ SessionEndFlags -> OptionValues ] :
        \/ \A f \in SessionEndSteps : o[f] = "unset"
        \/ \A f \in SessionEndSteps : o[f] # "unset" }

\* whether the memory holds an effective strategy, the exit code of memory
\* persist, whether .swarm can be written and whether fs.rm fails
SessionEndEnvs ==
    [ strategies : BOOLEAN, persist : ExitCodes, writable : BOOLEAN, rmFails : BOOLEAN ]

\* a cleanupSessionResources that clears the whole .swarm directory
cleanupSessionResourcesAll(files, env) ==
    IF files # {} /\ env.rmFails
    THEN [ cleaned |-> FALSE, files |-> files ]
    ELSE [ cleaned |-> TRUE, files |-> {} ]

\* cleanupSessionResources: .swarm/temp is removed if it exists
cleanupSessionResources(files, env) ==
    IF "temp" \in files /\ env.rmFails
    THEN [ cleaned |-> FALSE, files |-> files ]
    ELSE [ cleaned |-> TRUE, files |-> files \ { "temp" } ]

\* What one SessionEndHook.execute call returns, which child processes it
\* runs and what it leaves in .swarm.
SessionEndOutcome(options, env, files) ==
    LET generateSummary == Opt(options, "generateSummary", TRUE)
        persistState == Opt(options, "persistState", TRUE)
        exportMetrics == Opt(options, "exportMetrics", TRUE)
        generateReport == Opt(options, "generateReport", TRUE)
        cleanupResources == Opt(options, "cleanupResources", FALSE)
        extractLearnings == Opt(options, "extractLearnings", TRUE)
        operations ==
            When(generateSummary, [ kind |-> "summary" ])
            \o When(exportMetrics, [ kind |-> "metrics" ])
            \o When(extractLearnings, [ kind |-> "learnings" ])
        reports == generateReport /\ env.writable
        written == IF reports THEN files \cup { "reports" } ELSE files
        cleanup == cleanupSessionResources(written, env)
        ran ==
            (IF generateSummary THEN { "memory search" } ELSE {})
            \cup (IF exportMetrics
                  THEN { "performance report", "token usage", "agent metrics",
                         "bottleneck analyze" }
                  ELSE {})
            \cup (IF extractLearnings THEN { "neural patterns", "memory search" } ELSE {})
            \cup (IF extractLearnings /\ env.strategies THEN { "neural train" } ELSE {})
            \cup (IF persistState THEN { "memory persist" } ELSE {})
    IN  [ result |->
            [ success |-> TRUE,
              summary |-> Positional(operations, 1),
              metrics |-> Positional(operations, 2),
              learnings |-> Positional(operations, 3),
              reportPath |-> IF reports THEN [ path |-> "reports" ] ELSE Null,
              statePersisted |-> persistState /\ env.persist = 0,
              resourcesCleaned |-> cleanupResources /\ cleanup.cleaned ],
          ran |-> ran,
          files |-> IF cleanupResources THEN cleanup.files ELSE written ]

(***************************************************************************)
(* PostTaskHook or SessionEndHook run on its own (their CLIs)              *)
(***************************************************************************)
\* what .swarm may hold before the hook runs
SwarmEntries == { "temp", "reports", "memory.db" }

FinishInit ==
    /\ ptOptions = Undefined
    /\ ptRan = {}
    /\ ptResult = Undefined
    /\ seOptions = Undefined
    /\ seRan = {}
    /\ seResult = Undefined
    /\ swarmFiles \in SUBSET SwarmEntries
    /\ ChainIdle
    /\ EditIdle
    /\ ProcessInit
    /\ CommandIdle
    /\ ManagerIdle
    /\ TaskIdle
    /\ NotImported

finishFrame ==
    << chainVars, editVars, processVars, commandVars, managerVars, taskVars, resolverVars >>

\* new PostTaskHook().execute(options); a run of the program executes one hook
PostTaskExecute ==
    /\ ptResult = Undefined /\ seResult = Undefined
    /\ \E options \in PostTaskOptions, env \in PostTaskEnvs :
          \E outcome \in { PostTaskOutcome(options, env, swarmFiles) } :
              /\ ptOptions' = options
              /\ ptRan' = outcome.ran
              /\ ptResult' = outcome.result
              /\ swarmFiles' = outcome.files
    /\ UNCHANGED sessionEndVars
    /\ UNCHANGED finishFrame

\* new SessionEndHook().execute(options)
SessionEndExecute ==
    /\ ptResult = Undefined /\ seResult = Undefined
    /\ \E options \in SessionEndOptions, env \in SessionEndEnvs :
          \E outcome \in { SessionEndOutcome(options, env, swarmFiles) } :
              /\ seOptions' = options
              /\ seRan' = outcome.ran
              /\ seResult' = outcome.result
              /\ swarmFiles' = outcome.files
    /\ UNCHANGED postTaskVars
    /\ UNCHANGED finishFrame

FinishNext == PostTaskExecute \/ SessionEndExecute

SpecFinish == FinishInit /\ [][FinishNext]_vars

\* the caller gave the flag, with a true value
ExplicitlySet(options, flag) == flag \in DOMAIN options /\ options[flag] = "true"

\* C30: a PostTaskHook.execute call runs git add or git commit only if
\* createGithubCommit was set and swarm destroy only if cleanupSwarm was set,
\* a SessionEndHook.execute call removes an entry of .swarm only if
\* cleanupResources was set, and no call removes anything but .swarm/temp.
C30_DestructiveStepsOptIn ==
    [][ /\ ptRan' \cap { "git add", "git commit" } # {}
            => ExplicitlySet(ptOptions', "createGithubCommit")
        /\ "swarm destroy" \in ptRan' => ExplicitlySet(ptOptions', "cleanupSwarm")
        /\ swarmFiles \ swarmFiles' \subseteq { "temp" }
        /\ swarmFiles \ swarmFiles' # {} => ExplicitlySet(seOptions', "cleanupResources")
      ]_vars

\* PostTaskHook.execute has run with no option given: it persisted the state
\* and exported the metrics, and ran no git or swarm destroy command
C30_Witness ==
    /\ ptResult # Undefined
    /\ \A f \in PostTaskFlags : ptOptions[f] = "unset"
    /\ { "memory persist", "swarm monitor" } \subseteq ptRan
    /\ ptRan \cap { "git status", "git add", "git commit", "swarm destroy" } = {}
    /\ "metrics" \in swarmFiles
    /\ SwarmEntries \subseteq swarmFiles

====
